---- MODULE Spec2Model ----
(***************************************************************************)
(* Model of the pramana-api ingestion pipeline (server/lib/buffer.ts, the  *)
(* hash-based revision): the CSV record codec, the buffer writer with its  *)
(* etag retry loop, the per-user summary, compaction, full rebuild of the  *)
(* chart document and the GDPR erase route, over an R2 bucket that offers  *)
(* whole-object get/put, conditional put and prefix listing.               *)
(*                                                                         *)
(* Text is modelled as a sequence of characters; a character is a TLA+     *)
(* string. Identifiers such as a user id are one-character texts.          *)
(***************************************************************************)
EXTENDS Integers, Sequences, FiniteSets, TLC

\* ------------------------------------------------------------------ bounds

\* Longest model_id / output text drawn for the codec round trip.
MaxFieldLen == 2

\* Calls of appendToCsvBuffer / updateUserSummary made in one behaviour.
MaxCalls == 4

\* The compactBuffer runs of a behaviour.
MaxRuns == 2

\* Longest log of records given to a rebuild.
MaxRecords == 3
MaxDeltas == 2

\* Requests the submit routes take in one behaviour.
MaxRequests == 3

\* welfordUpdate and welfordMerge calls in one behaviour.
MaxOps == 3

\* ------------------------------------------------------------- characters

COMMA == ","
DQUOTE == "\""
LF == "\n"
CR == "\r"
SPACE == " "

\* String.prototype.trim / trimEnd strip these.
Whitespace == {SPACE, LF, CR}

Digits == <<"0", "1", "2", "3", "4", "5", "6", "7", "8", "9">>

IsDigit(c) == \E k \in 1..10 : Digits[k] = c

DigitVal(c) == (CHOOSE k \in 1..10 : Digits[k] = c) - 1

\* JavaScript null for score, and NaN for a failed parseInt / parseFloat.
NullScore == -1
NaN == -2

\* ------------------------------------------------------- string primitives

\* value.includes(c)
Includes(s, c) == \E i \in 1..Len(s) : s[i] = c

\* line.indexOf(c, from), 1-based; 0 when there is none (JavaScript's -1).
IndexOf(s, c, from) ==
    IF \E i \in from..Len(s) : s[i] = c
    THEN CHOOSE i \in from..Len(s) : s[i] = c /\ \A k \in from..(i - 1) : s[k] # c
    ELSE 0

RECURSIVE TrimEnd(_)
TrimEnd(s) ==
    IF s = <<>> THEN s
    ELSE IF s[Len(s)] \in Whitespace THEN TrimEnd(SubSeq(s, 1, Len(s) - 1))
    ELSE s

RECURSIVE TrimStart(_)
TrimStart(s) ==
    IF s = <<>> THEN s
    ELSE IF s[1] \in Whitespace THEN TrimStart(Tail(s))
    ELSE s

Trim(s) == TrimStart(TrimEnd(s))

\* xs.join(sep) for a sequence of texts.
RECURSIVE Join(_, _)
Join(xs, sep) ==
    IF xs = <<>> THEN <<>>
    ELSE IF Len(xs) = 1 THEN xs[1]
    ELSE xs[1] \o <<sep>> \o Join(Tail(xs), sep)

\* s.split(sep): the texts between the separators (always at least one).
RECURSIVE Split(_, _)
Split(s, sep) ==
    LET k == IndexOf(s, sep, 1) IN
    IF k = 0 THEN <<s>>
    ELSE <<SubSeq(s, 1, k - 1)>> \o Split(SubSeq(s, k + 1, Len(s)), sep)

\* String(n) for a natural number.
RECURSIVE NatToStr(_)
NatToStr(n) ==
    IF n < 10 THEN <<Digits[n + 1]>>
    ELSE NatToStr(n \div 10) \o <<Digits[(n % 10) + 1]>>

\* String(n) for any number a record can hold (NaN after a failed parse).
NumToStr(n) == IF n = NaN THEN <<"N", "a", "N">> ELSE NatToStr(n)

RECURSIVE DigitsValue(_, _)
DigitsValue(s, acc) ==
    IF s = <<>> \/ ~IsDigit(s[1]) THEN acc
    ELSE DigitsValue(Tail(s), acc * 10 + DigitVal(s[1]))

\* parseInt(s, 10): leading white space skipped, then the longest digit prefix.
ParseInt(s) ==
    LET t == TrimStart(s) IN
    IF t = <<>> \/ ~IsDigit(t[1]) THEN NaN ELSE DigitsValue(t, 0)

\* Scores are held in tenths: 0 is 0, 5 is 0.5, 10 is 1.
\* String(score)
ScoreToStr(s) ==
    IF s = 10 THEN <<"1">>
    ELSE IF s = 0 THEN <<"0">>
    ELSE <<"0", ".", Digits[s + 1]>>

\* parseFloat(s) on the texts String(score) produces; NaN on others.
ParseFloat(s) ==
    LET t == TrimStart(s) IN
    IF t = <<>> \/ ~IsDigit(t[1]) THEN NaN
    ELSE IF Len(t) >= 3 /\ t[2] = "." /\ IsDigit(t[3])
         THEN DigitVal(t[1]) * 10 + DigitVal(t[3])
         ELSE DigitVal(t[1]) * 10

\* --------------------------------------------------------------- CSV codec

CSV_HEADERS ==
    <<"id", COMMA, "timestamp", COMMA, "user_id", COMMA, "model_id", COMMA,
      "prompt_id", COMMA, "output", COMMA, "output_hash", COMMA,
      "metadata_json", COMMA, "year", COMMA, "month", COMMA, "day", COMMA,
      "score">>

\* value.replace(/"/g, '""')
RECURSIVE DoubleQuotes(_)
DoubleQuotes(s) ==
    IF s = <<>> THEN <<>>
    ELSE IF s[1] = DQUOTE THEN <<DQUOTE, DQUOTE>> \o DoubleQuotes(Tail(s))
    ELSE <<s[1]>> \o DoubleQuotes(Tail(s))

escapeCsvField(value) ==
    IF Includes(value, COMMA) \/ Includes(value, DQUOTE)
       \/ Includes(value, LF) \/ Includes(value, CR)
    THEN <<DQUOTE>> \o DoubleQuotes(value) \o <<DQUOTE>>
    ELSE value

recordToCsvRow(r) ==
    Join(<<r.id,
           r.timestamp,
           r.user_id,
           r.model_id,
           r.prompt_id,
           escapeCsvField(r.output),
           r.output_hash,
           escapeCsvField(r.metadata_json),
           NumToStr(r.year),
           NumToStr(r.month),
           NumToStr(r.day),
           IF r.score # NullScore THEN ScoreToStr(r.score) ELSE <<>> >>, COMMA)

\* The inner loop of parseCsvRow: scans a quoted field from position j and
\* returns its value and the position after the closing quote.
RECURSIVE ScanQuoted(_, _, _)
ScanQuoted(line, j, value) ==
    IF j > Len(line) THEN [value |-> value, j |-> j]
    ELSE IF line[j] = DQUOTE
         THEN IF j + 1 <= Len(line) /\ line[j + 1] = DQUOTE
              THEN ScanQuoted(line, j + 2, Append(value, DQUOTE))
              ELSE [value |-> value, j |-> j + 1]
         ELSE ScanQuoted(line, j + 1, Append(value, line[j]))

\* The outer loop of parseCsvRow: the fields of the line from position i.
RECURSIVE ScanFields(_, _, _)
ScanFields(line, i, fields) ==
    IF i > Len(line) THEN fields
    ELSE IF line[i] = DQUOTE
         THEN LET q == ScanQuoted(line, i + 1, <<>>) IN
              ScanFields(line, q.j + 1, Append(fields, q.value))
         ELSE LET comma == IndexOf(line, COMMA, i) IN
              IF comma = 0
              THEN Append(fields, SubSeq(line, i, Len(line)))
              ELSE ScanFields(line, comma + 1,
                              Append(fields, SubSeq(line, i, comma - 1)))

\* parseCsvRow returns a record or null: here a sequence of no or one record.
parseCsvRow(line) ==
    IF Trim(line) = <<>> THEN <<>>
    ELSE LET fields == ScanFields(line, 1, <<>>) IN
         IF Len(fields) < 11 THEN <<>>
         ELSE LET scoreStr == IF Len(fields) >= 12 THEN fields[12] ELSE <<>> IN
              << [id |-> fields[1],
                  timestamp |-> fields[2],
                  user_id |-> fields[3],
                  model_id |-> fields[4],
                  prompt_id |-> fields[5],
                  output |-> fields[6],
                  output_hash |-> fields[7],
                  metadata_json |-> fields[8],
                  year |-> ParseInt(fields[9]),
                  month |-> ParseInt(fields[10]),
                  day |-> ParseInt(fields[11]),
                  score |-> IF scoreStr # <<>> THEN ParseFloat(scoreStr)
                            ELSE NullScore] >>

\* A loop that ends at the first line that does not decode.
RECURSIVE StopAtBadRow(_)
StopAtBadRow(lines) ==
    IF lines = <<>> \/ parseCsvRow(lines[1]) = <<>> THEN <<>>
    ELSE parseCsvRow(lines[1]) \o StopAtBadRow(Tail(lines))

\* The loop of parseCsvBody: a line that gives null is passed over.
RECURSIVE ParseLines(_)
ParseLines(lines) ==
    IF lines = <<>> THEN <<>>
    ELSE parseCsvRow(lines[1]) \o ParseLines(Tail(lines))

\* parseCsvBody: every line but the first, the undecodable ones left out.
parseCsvBody(csv) == ParseLines(Tail(Split(csv, LF)))

\* -------------------------------------------------------------- variables

VARIABLES
    codec,      \* the codec round trip: a record, its row, the decoded row
    buffer,     \* _buffer/buffer.csv.gz: [exists, body, etag]
    summaries,  \* _users/{user_id}/summary.json, per user: [exists, doc, etag]
    procs,      \* the running appendToCsvBuffer / updateUserSummary calls
    calls,      \* calls made so far
    nextId,     \* records created so far (crypto.randomUUID is fresh)
    accepted,   \* the records whose appendToCsvBuffer call returned
    counted,    \* per user, records whose updateUserSummary call returned
    archives,   \* _archive/{date}.csv.gz, per date: [exists, body, etag]
    chart,      \* _aggregated/chart_data.json: [exists, body, etag]
    today,      \* the UTC calendar day of the clock, an index into Dates
    cmp,        \* the compactBuffer run
    ers,        \* the DELETE /api/user/me request
    rebuilds,   \* the rebuildChartJson runs, per caller
    deltas,     \* _deltas/{day}/{ts}_{random}.json in key order: [exists, day, records]
    mrg,        \* the mergeDeltas run
    req,        \* the POST /api/submit request being handled
    calc        \* the accumulators and p-values of the statistics functions

vars ==
    <<codec, buffer, summaries, procs, calls, nextId, accepted, counted,
      archives, chart, today, cmp, ers, rebuilds, deltas, mrg, req, calc>>

storeVars == <<buffer, summaries, archives, chart>>
ingestVars == <<procs, calls, nextId, accepted, counted>>
maintVars == <<today, cmp, ers, rebuilds>>
deltaVars == <<deltas, mrg>>

\* The codec variable when no round trip is run.
CodecIdle == [pc |-> "idle", rec |-> <<>>, row |-> <<>>, parsed |-> <<>>]

\* ------------------------------------------------------ R2 bucket objects

\* An etag is the number of the write that produced the object; a get of a
\* missing object returns no body and no etag (null, falsy).
NoEtag == 0

NoObject == [exists |-> FALSE, body |-> <<>>, etag |-> NoEtag]

\* A put that leaves an object already stored as it is.
UploadIfAbsent(obj, body) ==
    IF obj.exists THEN obj ELSE [exists |-> TRUE, body |-> body, etag |-> obj.etag + 1]

\* bucket.put(key, body): the object is replaced whole and gets a new etag.
uploadFile(obj, body) == [exists |-> TRUE, body |-> body, etag |-> obj.etag + 1]

\* A put that takes any version of an object that exists.
EtagIgnored(obj, etag) == obj.exists

\* bucket.put(key, body, {onlyIf: {etagMatches: etag}}) returns null, and
\* uploadFileConditional throws status 412, unless the stored etag matches.
EtagMatches(obj, etag) == obj.exists /\ obj.etag = etag

\* downloadFileWithEtag: {body, etag}, both null when the object is missing.
downloadFileWithEtag(obj) ==
    IF obj.exists THEN [found |-> TRUE, body |-> obj.body, etag |-> obj.etag]
    ELSE [found |-> FALSE, body |-> <<>>, etag |-> NoEtag]

\* bucket.delete(key); the write counter stays so that etags are never reused.
deleteFile(obj) == [exists |-> FALSE, body |-> <<>>, etag |-> obj.etag]

\* ------------------------------------------------------------ submissions

Users == {<<"u1">>, <<"u2">>}

\* The calendar days a submission can carry (now.getUTCFullYear() ...).
Dates ==
    <<[year |-> 2024, month |-> 12, day |-> 31],
      [year |-> 2025, month |-> 1, day |-> 1],
      [year |-> 2025, month |-> 1, day |-> 2]>>

\* String(n).padStart(2, '0')
PadStart2(t) == IF Len(t) < 2 THEN <<"0">> \o t ELSE t

\* `${r.year}-${String(r.month).padStart(2, '0')}-${String(r.day).padStart(2, '0')}`
DateStr(r) ==
    NumToStr(r.year) \o <<"-">> \o PadStart2(NumToStr(r.month))
        \o <<"-">> \o PadStart2(NumToStr(r.day))

\* The hex digest of a text: SHA-256 is modelled as collision free, each
\* character of the input giving one character of the digest that is never a
\* comma, a quote or a line break.
RECURSIVE sha256hex(_)
sha256hex(input) ==
    IF input = <<>> THEN <<>>
    ELSE <<CASE input[1] = COMMA -> "2c"
             [] input[1] = DQUOTE -> "22"
             [] input[1] = LF -> "0a"
             [] input[1] = CR -> "0d"
             [] input[1] = SPACE -> "20"
             [] OTHER -> input[1]>> \o sha256hex(Tail(input))

\* crypto.randomUUID(): the n-th record's id.
RecordIds == <<"r1", "r2", "r3", "r4", "r5", "r6", "r7", "r8", "r9", "r10", "r11", "r12">>

\* The StorageRecord the submit route builds for one submission.
NewRecord(n, userId, sub) ==
    [id |-> <<RecordIds[n]>>,
     timestamp |-> DateStr(Dates[sub.date]) \o <<"T", "Z">>,
     user_id |-> userId,
     model_id |-> sub.model_id,
     prompt_id |-> sub.prompt_id,
     output |-> sub.output,
     output_hash |-> <<"sha256:">> \o
         sha256hex(sub.model_id \o <<"|">> \o sub.prompt_id \o <<"|">> \o sub.output),
     metadata_json |-> <<"{", "}">>,
     year |-> Dates[sub.date].year,
     month |-> Dates[sub.date].month,
     day |-> Dates[sub.date].day,
     score |-> NullScore]

\* The records of a batch of submissions, with ids n+1, n+2, ...
NewRecords(n, userId, subs) ==
    [i \in 1..Len(subs) |-> NewRecord(n + i, userId, subs[i])]

\* ----------------------------------------------------------- retry policy

MAX_RETRIES == 3

PreconditionFailed == 412

\* A loop without the attempt bound: every conflict is retried.
RetryAlways(status, attempt) == status = PreconditionFailed

\* A loop that gives up at its second conflict.
RetryOnce(status, attempt) == status = PreconditionFailed /\ attempt < 1

\* A loop that tries again after any error.
RetryAnyError(status, attempt) == attempt < MAX_RETRIES - 1

\* if (status === 412 && attempt < MAX_RETRIES - 1) continue
ShouldRetry(status, attempt) ==
    status = PreconditionFailed /\ attempt < MAX_RETRIES - 1

\* ------------------------------------------------------- per-user summary

EmptySummary ==
    [version |-> 3, submissions_by_date |-> <<>>, model_submissions |-> <<>>,
     total_submissions |-> 0]

\* The property name that every plain object answers with its prototype.
ProtoKey == <<"__proto__">>

\* obj[key] = value on a plain object ({} or the result of JSON.parse): the
\* name __proto__ is the accessor of Object.prototype; its setter ignores a
\* number or a string and takes an object as the new prototype, so no own
\* property is made and JSON.stringify writes nothing for the key.
ObjectSet(obj, key, value) ==
    IF key = ProtoKey THEN obj
    ELSE (key :> value) @@ obj

\* counts[key] = (counts[key] || 0) + 1
Increment(counts, key) ==
    ObjectSet(counts, key, (IF key \in DOMAIN counts THEN counts[key] ELSE 0) + 1)

\* The body of updateUserSummary's loop for one record.
CountRecord(summary, r) ==
    LET dateStr == DateStr(r)
        byDate == summary.submissions_by_date
        day == IF dateStr \in DOMAIN byDate THEN byDate[dateStr] ELSE <<>>
    IN [summary EXCEPT
          !.submissions_by_date =
              [d \in DOMAIN byDate \cup {dateStr} |->
                  IF d = dateStr THEN Increment(day, r.model_id) ELSE byDate[d]],
          !.model_submissions = Increment(@, r.model_id),
          !.total_submissions = @ + 1]

\* A loop that counts every record of the batch twice.
CountTwice(summary, records) ==
    LET once == [i \in 1..Len(records) |-> CountRecord(EmptySummary, records[i])]
    IN [summary EXCEPT !.total_submissions = @ + 2 * Len(once)]

RECURSIVE CountRecords(_, _)
CountRecords(summary, records) ==
    IF records = <<>> THEN summary
    ELSE CountRecords(CountRecord(summary, records[1]), Tail(records))

\* isLegacySummary: no version field, or a version below 3.
isLegacySummary(obj) ==
    IF "version" \in DOMAIN obj THEN obj.version < 3 ELSE TRUE

\* A migration that knows date_counts only.
CountsOfV1Only(raw) ==
    IF "date_counts" \in DOMAIN raw THEN raw.date_counts ELSE <<>>

\* The per-date per-model counts of a legacy summary: date_counts (v1) holds
\* numbers, date_stats (v2) holds accumulators with a count.
LegacyCounts(raw) ==
    IF "date_counts" \in DOMAIN raw THEN raw.date_counts
    ELSE IF "date_stats" \in DOMAIN raw
         THEN [d \in DOMAIN raw.date_stats |->
                  [m \in DOMAIN raw.date_stats[d] |-> raw.date_stats[d][m].count]]
         ELSE <<>>

\* v3.model_submissions[model] = (v3.model_submissions[model] || 0) + count,
\* over the dates of the source.
RECURSIVE SumModel(_, _, _)
SumModel(source, dates, model) ==
    IF dates = {} THEN 0
    ELSE LET d == CHOOSE d \in dates : TRUE IN
         (IF model \in DOMAIN source[d] THEN source[d][model] ELSE 0)
             + SumModel(source, dates \ {d}, model)

\* migrateSummary: a v3 summary with the counts and the total of the old one.
migrateSummary(raw) ==
    LET source == LegacyCounts(raw) IN
    [version |-> 3,
     submissions_by_date |->
         [d \in DOMAIN source |->
             [m \in DOMAIN source[d] \ {ProtoKey} |-> source[d][m]]],
     model_submissions |->
         [m \in UNION {DOMAIN source[d] : d \in DOMAIN source} \ {ProtoKey} |->
             SumModel(source, DOMAIN source, m)],
     total_submissions |->
         IF "total_submissions" \in DOMAIN raw THEN raw.total_submissions ELSE 0]

\* ------------------------------------------------ appendToCsvBuffer calls

Procs == {1, 2}

ProcIdle ==
    [op |-> "none", pc |-> "idle", attempt |-> 0, records |-> <<>>,
     userId |-> <<>>, etag |-> NoEtag, csv |-> <<>>, doc |-> EmptySummary,
     status |-> 0, first |-> NoEtag]

CanCall(p) == calls < MaxCalls /\ procs[p].pc \in {"idle", "returned", "thrown"}

\* A text with the row of the first record of the batch alone.
RowsOfFirst(records) ==
    IF records = <<>> THEN <<>> ELSE recordToCsvRow(records[1])

\* records.map(recordToCsvRow).join('\n')
RowsOf(records) == Join([i \in 1..Len(records) |-> recordToCsvRow(records[i])], LF)

RecordsOf(records) == {records[i] : i \in 1..Len(records)}

\* appendToCsvBuffer(bucket, records) is called; an empty batch returns at once.
AppendCall(p, records) ==
    /\ CanCall(p)
    /\ procs' = [procs EXCEPT ![p] =
           IF records = <<>>
           THEN [ProcIdle EXCEPT !.op = "append", !.pc = "returned"]
           ELSE [ProcIdle EXCEPT !.op = "append", !.pc = "read", !.records = records]]
    /\ calls' = calls + 1
    /\ nextId' = nextId + Len(records)
    /\ UNCHANGED <<codec, req, calc, deltaVars, storeVars, maintVars, accepted, counted>>

\* One pass of the loop up to the upload: download the buffer with its etag
\* and build the new CSV text.  first keeps the etag of the call's first
\* download for the properties; the code does not hold it.
AppendRead(p) ==
    /\ procs[p].op = "append" /\ procs[p].pc = "read"
    /\ LET got == downloadFileWithEtag(buffer)
           newRows == RowsOf(procs[p].records)
           csv == IF got.found THEN TrimEnd(got.body) \o <<LF>> \o newRows
                  ELSE CSV_HEADERS \o <<LF>> \o newRows
       IN procs' = [procs EXCEPT ![p].pc = "write", ![p].etag = got.etag, ![p].csv = csv,
                                 ![p].first = IF procs[p].attempt = 0 THEN got.etag ELSE @]
    /\ UNCHANGED <<codec, req, calc, deltaVars, storeVars, maintVars, calls, nextId, accepted, counted>>

\* The upload: conditional on the etag read, unconditional when there was
\* none; on 412 the loop continues or the error is thrown.
AppendWrite(p) ==
    /\ procs[p].op = "append" /\ procs[p].pc = "write"
    /\ IF procs[p].etag # NoEtag /\ ~EtagMatches(buffer, procs[p].etag)
       THEN /\ procs' = [procs EXCEPT ![p] =
                  IF ShouldRetry(PreconditionFailed, procs[p].attempt)
                  THEN [@ EXCEPT !.pc = "read", !.attempt = @ + 1,
                                 !.etag = NoEtag, !.csv = <<>>]
                  ELSE [ProcIdle EXCEPT !.op = "append", !.pc = "thrown",
                                        !.attempt = procs[p].attempt,
                                        !.status = PreconditionFailed]]
            /\ UNCHANGED <<buffer, accepted>>
       ELSE /\ buffer' = uploadFile(buffer, procs[p].csv)
            /\ procs' = [procs EXCEPT ![p] =
                  [ProcIdle EXCEPT !.op = "append", !.pc = "returned",
                                   !.attempt = procs[p].attempt]]
            /\ accepted' = accepted \cup RecordsOf(procs[p].records)
    /\ UNCHANGED <<codec, req, calc, deltaVars, summaries, archives, chart, maintVars, calls, nextId, counted>>

\* ------------------------------------------------ updateUserSummary calls

\* updateUserSummary(bucket, userId, records) is called; an empty batch
\* returns an empty summary at once.
UpdateCall(p, userId, records) ==
    /\ CanCall(p)
    /\ procs' = [procs EXCEPT ![p] =
           IF records = <<>>
           THEN [ProcIdle EXCEPT !.op = "update", !.pc = "returned"]
           ELSE [ProcIdle EXCEPT !.op = "update", !.pc = "read",
                                 !.userId = userId, !.records = records]]
    /\ calls' = calls + 1
    /\ UNCHANGED <<codec, req, calc, deltaVars, storeVars, maintVars, nextId, accepted, counted>>

\* One pass of the loop up to the upload: download the summary with its etag,
\* migrate it when it is of an older version, count the records.
UpdateRead(p) ==
    /\ procs[p].op = "update" /\ procs[p].pc = "read"
    /\ LET got == downloadFileWithEtag(summaries[procs[p].userId])
           summary == IF ~got.found THEN EmptySummary
                      ELSE IF isLegacySummary(got.body) THEN migrateSummary(got.body)
                      ELSE got.body
       IN procs' = [procs EXCEPT ![p].pc = "write", ![p].etag = got.etag,
                                 ![p].doc = CountRecords(summary, procs[p].records)]
    /\ UNCHANGED <<codec, req, calc, deltaVars, storeVars, maintVars, calls, nextId, accepted, counted>>

UpdateWrite(p) ==
    /\ procs[p].op = "update" /\ procs[p].pc = "write"
    /\ LET u == procs[p].userId IN
       IF procs[p].etag # NoEtag /\ ~EtagMatches(summaries[u], procs[p].etag)
       THEN /\ procs' = [procs EXCEPT ![p] =
                  IF ShouldRetry(PreconditionFailed, procs[p].attempt)
                  THEN [@ EXCEPT !.pc = "read", !.attempt = @ + 1,
                                 !.etag = NoEtag, !.doc = EmptySummary]
                  ELSE [ProcIdle EXCEPT !.op = "update", !.pc = "thrown",
                                        !.attempt = procs[p].attempt,
                                        !.status = PreconditionFailed]]
            /\ UNCHANGED <<summaries, counted>>
       ELSE /\ summaries' = [summaries EXCEPT ![u] = uploadFile(@, procs[p].doc)]
            /\ procs' = [procs EXCEPT ![p] =
                  [ProcIdle EXCEPT !.op = "update", !.pc = "returned",
                                   !.attempt = procs[p].attempt]]
            /\ counted' = [counted EXCEPT ![u] = @ + Len(procs[p].records)]
    /\ UNCHANGED <<codec, req, calc, deltaVars, buffer, archives, chart, maintVars, calls, nextId, accepted>>

\* readUserSummary(bucket, userId): null when there is no object (etag stays
\* NoEtag and doc the empty summary), else the stored summary, migrated when
\* it is of an older version.
ReadSummaryCall(p, userId) ==
    /\ CanCall(p)
    /\ LET got == downloadFileWithEtag(summaries[userId])
           summary == IF ~got.found THEN EmptySummary
                      ELSE IF isLegacySummary(got.body) THEN migrateSummary(got.body)
                      ELSE got.body
       IN procs' = [procs EXCEPT ![p] =
              [ProcIdle EXCEPT !.op = "readSummary", !.pc = "returned",
                               !.userId = userId, !.etag = got.etag, !.doc = summary]]
    /\ calls' = calls + 1
    /\ UNCHANGED <<codec, req, calc, deltaVars, storeVars, maintVars, nextId, accepted, counted>>

\* ------------------------------------------------------ chart aggregation

\* allRecords.sort comparator: a.year - b.year, a.month - b.month, a.day - b.day
DateBefore(a, b) ==
    IF a.year # b.year THEN a.year < b.year
    ELSE IF a.month # b.month THEN a.month < b.month
    ELSE a.day < b.day

\* Array.prototype.sort is stable: an element comes after the elements the
\* comparator puts before it and after its equals that stood before it.
SortBy(xs, Before(_, _)) ==
    LET all == SubSeq(xs, 1, Len(xs))
        n == Len(all)
        place == {<<1 + Cardinality({j \in 1..n :
                           IF j < i THEN ~Before(all[i], all[j])
                           ELSE Before(all[j], all[i])}), i>> :
                  i \in 1..n}
    IN SubSeq([k \in 1..n |-> all[(CHOOSE p \in place : p[1] = k)[2]]], 1, n)

\* allRecords.sort((a, b) => ...)
SortByDate(recs) == SortBy(recs, DateBefore)

\* The keys of a Map or the values of a Set, in insertion order.
Distinct(xs) ==
    LET all == SubSeq(xs, 1, Len(xs))
        first == SelectSeq([i \in 1..Len(all) |-> i],
                     LAMBDA i : \A j \in 1..(i - 1) : all[j] # all[i])
    IN SubSeq([k \in 1..Len(first) |-> all[first[k]]], 1, Len(first))

\* The UTF-16 code unit of a character of a date string.
CharCode(c) ==
    CASE c = "-" -> 45
      [] IsDigit(c) -> 48 + DigitVal(c)
      [] OTHER -> 78

\* a < b for strings, as Array.prototype.sort() without a comparator orders.
RECURSIVE StrBefore(_, _)
StrBefore(a, b) ==
    IF b = <<>> THEN FALSE
    ELSE IF a = <<>> THEN TRUE
    ELSE IF a[1] = b[1] THEN StrBefore(Tail(a), Tail(b))
    ELSE CharCode(a[1]) < CharCode(b[1])

\* Array.from(grouped.keys()).sort()
SortStrings(xs) == SortBy(xs, StrBefore)

\* map.set(key, value) on a Map
MapSet(map, key, value) == (key :> value) @@ map

\* promptLatestHash.get(prompt): the hash of the last record of the prompt.
LatestHash(records, prompt) ==
    LET last == CHOOSE i \in 1..Len(records) :
                    /\ records[i].prompt_id = prompt
                    /\ \A j \in (i + 1)..Len(records) : records[j].prompt_id # prompt
    IN records[last].output_hash

\* A rule that also counts the first fingerprint seen for a key.
DriftedOrNew(prevHash, key, hash) == key \notin DOMAIN prevHash \/ prevHash[key] # hash

\* prev !== undefined && prev !== hash
IsDrifted(prevHash, key, hash) == key \in DOMAIN prevHash /\ prevHash[key] # hash

\* for (const [prompt, hash] of promptLatestHash): count drift, carry the hash.
RECURSIVE DriftPass(_, _, _, _)
DriftPass(acc, model, records, prompts) ==
    IF prompts = <<>> THEN acc
    ELSE LET prompt == prompts[1]
             hash == LatestHash(records, prompt)
             key == model \o <<"|">> \o prompt
         IN DriftPass(
                [prevHash |-> MapSet(acc.prevHash, key, hash),
                 drifted |-> IF IsDrifted(acc.prevHash, key, hash)
                             THEN acc.drifted + 1 ELSE acc.drifted],
                model, records, Tail(prompts))

\* The statistics of one (date, model) group and the prevHash map after it.
ScoreModel(prevHash, model, records) ==
    LET promptIds == Distinct([i \in 1..Len(records) |-> records[i].prompt_id])
        outputHashes == {records[i].output_hash : i \in 1..Len(records)}
        pass == DriftPass([prevHash |-> prevHash, drifted |-> 0],
                          model, records, promptIds)
    IN [prevHash |-> pass.prevHash,
        stats |-> [submissions |-> Len(records),
                   prompts_tested |-> Len(promptIds),
                   unique_outputs |-> Cardinality(outputHashes),
                   drifted_prompts |-> pass.drifted]]

\* for (const [model, records] of dateMap), models in insertion order;
\* onDate holds the records grouped under the date.
RECURSIVE ScoreModels(_, _, _, _)
ScoreModels(acc, onDate, date, models) ==
    IF models = <<>> THEN acc
    ELSE LET model == models[1]
             records == SelectSeq(onDate, LAMBDA r : r.model_id = model)
             scored == ScoreModel(acc.prevHash, model, records)
         IN ScoreModels(
                [prevHash |-> scored.prevHash,
                 data |-> ObjectSet(acc.data, date,
                                    ObjectSet(acc.data[date], model, scored.stats)),
                 total |-> acc.total + Len(records)],
                onDate, date, Tail(models))

\* One turn of for (const date of sortedDates): data[date] = {}, then the
\* models of grouped.get(date).  dateStrs[i] is the dateStr of sorted[i].
ScoreDate(acc, sorted, dateStrs, date) ==
    LET at == SelectSeq([i \in 1..Len(sorted) |-> i], LAMBDA i : dateStrs[i] = date)
        onDate == SubSeq([k \in 1..Len(at) |-> sorted[at[k]]], 1, Len(at))
        models == Distinct([i \in 1..Len(onDate) |-> onDate[i].model_id])
    IN ScoreModels([acc EXCEPT !.data = ObjectSet(acc.data, date, <<>>)],
                   onDate, date, models)

\* for (const date of sortedDates): the turns from..to, the turns of the
\* second half starting from what the first half has left.
RECURSIVE ScoreDates(_, _, _, _, _, _)
ScoreDates(acc, sorted, dateStrs, dates, from, to) ==
    IF from > to THEN acc
    ELSE IF from = to THEN ScoreDate(acc, sorted, dateStrs, dates[from])
    ELSE LET mid == (from + to) \div 2
             half == ScoreDates(acc, sorted, dateStrs, dates, from, mid)
         IN IF half.total >= acc.total
            THEN ScoreDates(half, sorted, dateStrs, dates, mid + 1, to)
            ELSE half

EmptyChart ==
    [version |-> 3, data |-> <<>>, models |-> {}, total_submissions |-> 0,
     total_contributors |-> 0]

\* Steps 2 to 5 of rebuildChartJson: the document built from the loaded
\* records and the number of summary objects.  models, a sorted array without
\* repetitions, is held as the set of its elements.
BuildChart(allRecords, totalContributors) ==
    LET sorted == SortByDate(allRecords)
        dateStrs == SubSeq([i \in 1..Len(sorted) |-> DateStr(sorted[i])],
                           1, Len(sorted))
        sortedDates == SortStrings(Distinct(dateStrs))
        scored == ScoreDates([prevHash |-> <<>>, data |-> <<>>, total |-> 0],
                             sorted, dateStrs, sortedDates, 1, Len(sortedDates))
    IN [version |-> 3,
        data |-> scored.data,
        models |-> {sorted[i].model_id : i \in 1..Len(sorted)},
        total_submissions |-> scored.total,
        total_contributors |-> totalContributors]

\* ------------------------------------------------- rebuildChartJson runs

\* Who runs rebuildChartJson: compactBuffer, the erase route, the admin route,
\* the batch submit route.
Callers == {"compact", "erase", "admin", "submit"}

RebuildIdle ==
    [pc |-> "idle", keys |-> <<>>, allRecords |-> <<>>, totalContributors |-> 0,
     doc |-> EmptyChart]

RebuildStart == [RebuildIdle EXCEPT !.pc = "list"]

\* The days that have an archive partition; _archive/{date}.csv.gz keys are
\* listed in lexicographic order, which is the order of the dates.
StoredKeys(objs) ==
    SelectSeq([d \in 1..Len(objs) |-> d], LAMBDA d : objs[d].exists)

\* listFiles(bucket, prefix, maxKeys = 1000)
DefaultMaxKeys == 1000

\* The loop of listFiles asks for min(maxKeys - keys.length, 1000) keys a page
\* and ends when the listing is not truncated or maxKeys keys are held: the
\* first maxKeys keys are returned.
listFiles(objs) ==
    LET keys == StoredKeys(objs) IN
    IF Len(keys) > DefaultMaxKeys THEN SubSeq(keys, 1, DefaultMaxKeys) ELSE keys

\* The records of the archive partitions of the keys, in key order.
RECURSIVE ArchiveRecords(_, _)
ArchiveRecords(objs, keys) ==
    IF keys = <<>> THEN <<>>
    ELSE IF Len(keys) = 1 THEN parseCsvBody(objs[keys[1]].body)
    ELSE LET mid == Len(keys) \div 2 IN
         ArchiveRecords(objs, SubSeq(keys, 1, mid))
             \o ArchiveRecords(objs, SubSeq(keys, mid + 1, Len(keys)))

\* The records of every archive partition in key order, then of the buffer.
LogRecords ==
    ArchiveRecords(archives, StoredKeys(archives))
        \o (IF buffer.exists THEN parseCsvBody(buffer.body) ELSE <<>>)

\* The records rebuildChartJson loads from the archives and the buffer.
LoadedRecords(objs, buf) ==
    LET got == downloadFileWithEtag(buf) IN
    ArchiveRecords(objs, listFiles(objs))
        \o (IF got.found THEN parseCsvBody(got.body) ELSE <<>>)

\* userKeys.filter(k => k.endsWith('/summary.json')).length
CountContributors(sums) == Cardinality({u \in Users : sums[u].exists})

\* The document rebuildChartJson builds over a storage that stays as it is.
RebuiltChart(objs, buf, sums) ==
    BuildChart(LoadedRecords(objs, buf), CountContributors(sums))

\* POST /admin/rebuild: rebuildChartJson is called on its own.
RebuildCall(c) ==
    /\ rebuilds[c].pc = "idle"
    /\ rebuilds' = [rebuilds EXCEPT ![c] = RebuildStart]
    /\ UNCHANGED <<codec, req, calc, deltaVars, storeVars, ingestVars, today, cmp, ers>>

\* listFiles(bucket, ARCHIVE_PREFIX)
RebuildList(c) ==
    /\ rebuilds[c].pc = "list"
    /\ LET keys == listFiles(archives) IN
       rebuilds' = [rebuilds EXCEPT ![c].keys = keys,
                        ![c].pc = IF keys = <<>> THEN "buffer" ELSE "download"]
    /\ UNCHANGED <<codec, req, calc, deltaVars, storeVars, ingestVars, today, cmp, ers>>

\* One turn of the loop over the archive keys: download, gunzip, parse, push.
RebuildDownload(c) ==
    /\ rebuilds[c].pc = "download"
    /\ LET key == rebuilds[c].keys[1] IN
       /\ archives[key].exists
       /\ rebuilds' = [rebuilds EXCEPT
              ![c].allRecords = @ \o parseCsvBody(archives[key].body),
              ![c].keys = Tail(@),
              ![c].pc = IF Tail(rebuilds[c].keys) = <<>> THEN "buffer" ELSE "download"]
    /\ UNCHANGED <<codec, req, calc, deltaVars, storeVars, ingestVars, today, cmp, ers>>

\* The current buffer is read as well.
RebuildBuffer(c) ==
    /\ rebuilds[c].pc = "buffer"
    /\ LET got == downloadFileWithEtag(buffer) IN
       rebuilds' = [rebuilds EXCEPT
           ![c].allRecords = IF got.found THEN @ \o parseCsvBody(got.body) ELSE @,
           ![c].pc = "users"]
    /\ UNCHANGED <<codec, req, calc, deltaVars, storeVars, ingestVars, today, cmp, ers>>

\* Sort, group, score; then listFiles(bucket, USERS_PREFIX) counts the
\* summary.json objects.
RebuildUsers(c) ==
    /\ rebuilds[c].pc = "users"
    /\ LET totalContributors == CountContributors(summaries) IN
       rebuilds' = [rebuilds EXCEPT
           ![c].totalContributors = totalContributors,
           ![c].doc = BuildChart(rebuilds[c].allRecords, totalContributors),
           ![c].pc = "write"]
    /\ UNCHANGED <<codec, req, calc, deltaVars, storeVars, ingestVars, today, cmp, ers>>

\* uploadFile(bucket, CHART_KEY, ...): an unconditional put.
RebuildWrite(c) ==
    /\ rebuilds[c].pc = "write"
    /\ chart' = uploadFile(chart, rebuilds[c].doc)
    /\ rebuilds' = [rebuilds EXCEPT ![c].pc = "done"]
    /\ UNCHANGED <<codec, req, calc, deltaVars, buffer, summaries, archives, ingestVars, today, cmp, ers>>

RebuildStep(c) ==
    \/ RebuildList(c)
    \/ RebuildDownload(c)
    \/ RebuildBuffer(c)
    \/ RebuildUsers(c)
    \/ RebuildWrite(c)

\* rebuildChartJson from its first line to its last with no other request
\* served in between: RebuildList to RebuildWrite taken together.
RebuildRun(c) ==
    /\ rebuilds[c].pc = "idle"
    /\ LET doc == RebuiltChart(archives, buffer, summaries) IN
       /\ chart' = uploadFile(chart, doc)
       /\ rebuilds' = [rebuilds EXCEPT ![c] =
              [RebuildIdle EXCEPT !.pc = "done",
                                  !.allRecords = LoadedRecords(archives, buffer),
                                  !.totalContributors = CountContributors(summaries),
                                  !.doc = doc]]
    /\ UNCHANGED <<codec, req, calc, deltaVars, buffer, summaries, archives, ingestVars, today, cmp, ers>>

\* ---------------------------------------------------------- compactBuffer

CompactIdle ==
    [pc |-> "idle", records |-> <<>>, archiveKey |-> 1, archiveCsv |-> <<>>,
     archived |-> 0, chartRebuilt |-> FALSE, runs |-> 0, failures |-> 0]

\* The cron trigger (or POST /admin/compact) starts a run.
CompactCall ==
    /\ cmp.pc \in {"idle", "done", "failed"}
    /\ cmp.runs < MaxRuns
    /\ cmp' = [CompactIdle EXCEPT !.pc = "read", !.runs = cmp.runs + 1,
                                  !.failures = cmp.failures]
    /\ UNCHANGED <<codec, req, calc, deltaVars, storeVars, ingestVars, today, ers, rebuilds>>

\* A run that goes on to the archive whatever it has read.
ArchiveAnyway(records) == FALSE

\* if (records.length === 0) return { archived: 0, chartRebuilt: false }
NothingToArchive(records) == records = <<>>

\* The buffer is downloaded and parsed; nothing to do when it is missing or
\* holds no record.
CompactRead ==
    /\ cmp.pc = "read"
    /\ LET got == downloadFileWithEtag(buffer)
           records == IF got.found THEN parseCsvBody(got.body) ELSE <<>>
       IN cmp' = IF NothingToArchive(records)
                 THEN [cmp EXCEPT !.pc = "done", !.archived = 0, !.chartRebuilt = FALSE]
                 ELSE [cmp EXCEPT !.pc = "archive", !.records = records,
                                  !.archiveKey = today]
    /\ UNCHANGED <<codec, req, calc, deltaVars, storeVars, ingestVars, today, ers, rebuilds>>

\* Today's archive partition is downloaded and the new text is built.
CompactArchive ==
    /\ cmp.pc = "archive"
    /\ LET existing == downloadFileWithEtag(archives[cmp.archiveKey])
           archiveCsv ==
               IF existing.found
               THEN TrimEnd(existing.body) \o <<LF>> \o RowsOf(cmp.records)
               ELSE CSV_HEADERS \o <<LF>> \o RowsOf(cmp.records)
       IN cmp' = [cmp EXCEPT !.pc = "upload", !.archiveCsv = archiveCsv]
    /\ UNCHANGED <<codec, req, calc, deltaVars, storeVars, ingestVars, today, ers, rebuilds>>

\* uploadFile(bucket, archiveKey, ...)
CompactUpload ==
    /\ cmp.pc = "upload"
    /\ archives' = [archives EXCEPT ![cmp.archiveKey] = uploadFile(@, cmp.archiveCsv)]
    /\ cmp' = [cmp EXCEPT !.pc = "reset"]
    /\ UNCHANGED <<codec, req, calc, deltaVars, buffer, summaries, chart, ingestVars, today, ers, rebuilds>>

\* The run ends between the archive upload and the buffer reset: the put of
\* the buffer rejects, or the Worker is stopped.
CompactFail ==
    /\ cmp.pc = "reset"
    /\ cmp' = [cmp EXCEPT !.pc = "failed", !.failures = @ + 1]
    /\ UNCHANGED <<codec, req, calc, deltaVars, storeVars, ingestVars, today, ers, rebuilds>>

\* uploadFile(bucket, BUFFER_KEY, CSV_HEADERS + '\n'), then rebuildChartJson.
CompactReset ==
    /\ cmp.pc = "reset"
    /\ buffer' = uploadFile(buffer, CSV_HEADERS \o <<LF>>)
    /\ cmp' = [cmp EXCEPT !.pc = "rebuild"]
    /\ rebuilds' = [rebuilds EXCEPT !["compact"] = RebuildStart]
    /\ UNCHANGED <<codec, req, calc, deltaVars, summaries, archives, chart, ingestVars, today, ers>>

\* return { archived: records.length, chartRebuilt: true }
CompactReturn ==
    /\ cmp.pc = "rebuild"
    /\ rebuilds["compact"].pc = "done"
    /\ cmp' = [cmp EXCEPT !.pc = "done", !.archived = Len(cmp.records),
                          !.chartRebuilt = TRUE]
    /\ UNCHANGED <<codec, req, calc, deltaVars, storeVars, ingestVars, today, ers, rebuilds>>

\* new Date() passes midnight UTC.
Midnight ==
    /\ today < Len(Dates)
    /\ today' = today + 1
    /\ UNCHANGED <<codec, req, calc, deltaVars, storeVars, ingestVars, cmp, ers, rebuilds>>

\* ------------------------------------------------- DELETE /api/user/me

EraseIdle ==
    [pc |-> "idle", userId |-> <<>>, etag |-> NoEtag, csv |-> <<>>,
     newCsv |-> <<>>, removed |-> 0, status |-> 0]

\* The lines deleteUserFromBuffer keeps: those that do not parse, and those of
\* another user.
KeptLines(lines, userId) ==
    SelectSeq(lines,
        LAMBDA line :
            LET rec == parseCsvRow(line)
            IN IF rec # <<>> THEN rec[1].user_id # userId ELSE TRUE)

\* The request of an authenticated user arrives.
EraseCall(userId) ==
    /\ ers.pc = "idle"
    /\ ers' = [EraseIdle EXCEPT !.pc = "read", !.userId = userId]
    /\ UNCHANGED <<codec, req, calc, deltaVars, storeVars, ingestVars, today, cmp, rebuilds>>

\* deleteUserFromBuffer up to its upload: download, split, filter, count.
EraseRead ==
    /\ ers.pc = "read"
    /\ LET got == downloadFileWithEtag(buffer)
           lines == Split(got.body, LF)
           header == lines[1]
           filtered == KeptLines(Tail(lines), ers.userId)
           removed == Len(lines) - 1 - Len(filtered)
       IN ers' =
           IF ~got.found THEN [ers EXCEPT !.pc = "deleteSummary", !.removed = 0]
           ELSE [ers EXCEPT
                    !.pc = IF removed > 0 THEN "write" ELSE "deleteSummary",
                    !.etag = got.etag,
                    !.csv = got.body,
                    !.newCsv = header \o <<LF>> \o Join(filtered, LF),
                    !.removed = removed]
    /\ UNCHANGED <<codec, req, calc, deltaVars, storeVars, ingestVars, today, cmp, rebuilds>>

\* The upload of the filtered buffer, conditional on the etag read; a 412 is
\* not caught and ends the request.
EraseWrite ==
    /\ ers.pc = "write"
    /\ IF ers.etag # NoEtag /\ ~EtagMatches(buffer, ers.etag)
       THEN /\ ers' = [ers EXCEPT !.pc = "failed", !.status = PreconditionFailed]
            /\ UNCHANGED buffer
       ELSE /\ buffer' = uploadFile(buffer, ers.newCsv)
            /\ ers' = [ers EXCEPT !.pc = "deleteSummary"]
    /\ UNCHANGED <<codec, req, calc, deltaVars, summaries, archives, chart, ingestVars, today, cmp, rebuilds>>

\* deleteFile(bucket, `_users/${userId}/summary.json`), then rebuildChartJson.
EraseDeleteSummary ==
    /\ ers.pc = "deleteSummary"
    /\ summaries' = [summaries EXCEPT ![ers.userId] = deleteFile(@)]
    /\ ers' = [ers EXCEPT !.pc = "rebuild"]
    /\ rebuilds' = [rebuilds EXCEPT !["erase"] = RebuildStart]
    /\ UNCHANGED <<codec, req, calc, deltaVars, buffer, archives, chart, ingestVars, today, cmp>>

\* The response: status deleted, buffer_rows_removed.
EraseReturn ==
    /\ ers.pc = "rebuild"
    /\ rebuilds["erase"].pc = "done"
    /\ ers' = [ers EXCEPT !.pc = "done"]
    /\ UNCHANGED <<codec, req, calc, deltaVars, storeVars, ingestVars, today, cmp, rebuilds>>

\* ------------------------------------------------------------ delta merge

\* writeDelta and mergeDeltas belong to ./buffer, where the tests import them
\* from; the module at hand does not hold them.  They follow the description
\* of the incremental delta-merge and the storage calls the tests expect.
\* prompts_tested and unique_outputs are left out: nothing says how one
\* record changes them.

\* DeltaRecord: what a DeltaFile keeps of a record.
DeltaRecord(r) ==
    [model_id |-> r.model_id, prompt_id |-> r.prompt_id,
     output_hash |-> r.output_hash, user_id |-> r.user_id]

\* ChartDelta {ts, day, records}; ts and the random suffix make the key, and
\* the files are held in the order of their keys.
ChartDelta(day, records) ==
    [exists |-> TRUE, day |-> DateStr(Dates[day]),
     records |-> [i \in 1..Len(records) |-> DeltaRecord(records[i])]]

\* The ChartDocument of version 4 when none is stored.
EmptyChartV4 ==
    [version |-> 4, data |-> <<>>, models |-> {}, total_submissions |-> 0,
     total_contributors |-> 0, prev_hashes |-> <<>>, known_users |-> {}]

\* readChartJson: an absent document reads as the empty one, a version 3
\* document gets empty _prev_hashes and _known_users.
readChartV4(obj) ==
    IF ~obj.exists THEN EmptyChartV4
    ELSE IF obj.body.version = 4 THEN obj.body
    ELSE [version |-> 4, data |-> obj.body.data, models |-> obj.body.models,
          total_submissions |-> obj.body.total_submissions,
          total_contributors |-> obj.body.total_contributors,
          prev_hashes |-> <<>>, known_users |-> {}]

ZeroStats == [submissions |-> 0, drifted_prompts |-> 0]

\* The counters of (day, model) in a document.
StatsOf(doc, day, model) ==
    IF day \in DOMAIN doc.data /\ model \in DOMAIN doc.data[day]
    THEN doc.data[day][model] ELSE ZeroStats

\* The effect of one record of a DeltaFile of the day on the document.
ApplyRecord(doc, day, r) ==
    LET key == r.model_id \o <<"|">> \o r.prompt_id
        old == StatsOf(doc, day, r.model_id)
        stats == [submissions |-> old.submissions + 1,
                  drifted_prompts |->
                      IF IsDrifted(doc.prev_hashes, key, r.output_hash)
                      THEN old.drifted_prompts + 1 ELSE old.drifted_prompts]
        ofDay == IF day \in DOMAIN doc.data THEN doc.data[day] ELSE <<>>
        known == doc.known_users \cup {r.user_id}
    IN [doc EXCEPT
           !.data = ObjectSet(doc.data, day, ObjectSet(ofDay, r.model_id, stats)),
           !.models = @ \cup {r.model_id},
           !.total_submissions = @ + 1,
           !.prev_hashes = ObjectSet(@, key, r.output_hash),
           !.known_users = known,
           !.total_contributors = Cardinality(known)]

\* The records of a file, one at a time in file order.
RECURSIVE ApplyRecords(_, _, _)
ApplyRecords(doc, day, records) ==
    IF records = <<>> THEN doc
    ELSE ApplyRecords(ApplyRecord(doc, day, records[1]), day, Tail(records))

\* A deletion that removes every file under the prefix.
DeleteListing(objs, keys) ==
    [k \in 1..Len(objs) |-> [objs[k] EXCEPT !.exists = FALSE]]

\* deleteFiles(bucket, keys): bucket.delete of the keys, a thousand at a time.
deleteFiles(objs, keys) ==
    [k \in 1..Len(objs) |->
        IF \E i \in 1..Len(keys) : keys[i] = k
        THEN [objs[k] EXCEPT !.exists = FALSE] ELSE objs[k]]

MergeIdle ==
    [pc |-> "idle", doc |-> EmptyChartV4, keys |-> <<>>, todo |-> <<>>,
     merged |-> 0, runs |-> 0]

DeltaInit ==
    /\ deltas = <<>>
    /\ mrg = MergeIdle

\* writeDelta(bucket, records): one DeltaFile for the batch, none for an
\* empty batch.
WriteDelta(records) ==
    /\ calls < MaxDeltas
    /\ calls' = calls + 1
    /\ nextId' = nextId + Len(records)
    /\ deltas' = IF records = <<>> THEN deltas
                 ELSE Append(deltas, ChartDelta(today, records))
    /\ UNCHANGED <<codec, req, calc, storeVars, maintVars, procs, accepted, counted, mrg>>

\* The scheduler (or the admin route) starts a merge.
MergeCall ==
    /\ mrg.pc \in {"idle", "done", "crashed"}
    /\ mrg.runs < MaxRuns
    /\ mrg' = [MergeIdle EXCEPT !.pc = "read", !.runs = mrg.runs + 1]
    /\ UNCHANGED <<codec, req, calc, storeVars, ingestVars, maintVars, deltas>>

\* The current ChartDocument is read.
MergeRead ==
    /\ mrg.pc = "read"
    /\ mrg' = [mrg EXCEPT !.doc = readChartV4(chart), !.pc = "list"]
    /\ UNCHANGED <<codec, req, calc, storeVars, ingestVars, maintVars, deltas>>

\* The pending DeltaFiles are listed; with none the merge returns merged = 0.
MergeList ==
    /\ mrg.pc = "list"
    /\ LET keys == listFiles(deltas) IN
       mrg' = [mrg EXCEPT !.keys = keys, !.todo = keys,
                          !.pc = IF keys = <<>> THEN "done" ELSE "download"]
    /\ UNCHANGED <<codec, req, calc, storeVars, ingestVars, maintVars, deltas>>

\* One DeltaFile is downloaded and its records are applied.
MergeDownload ==
    /\ mrg.pc = "download"
    /\ LET key == mrg.todo[1] IN
       /\ deltas[key].exists
       /\ mrg' = [mrg EXCEPT
              !.doc = ApplyRecords(@, deltas[key].day, deltas[key].records),
              !.todo = Tail(@),
              !.pc = IF Tail(mrg.todo) = <<>> THEN "write" ELSE "download"]
    /\ UNCHANGED <<codec, req, calc, storeVars, ingestVars, maintVars, deltas>>

\* The updated ChartDocument is written: uploadFile(bucket, CHART_KEY, ...).
MergeWrite ==
    /\ mrg.pc = "write"
    /\ chart' = uploadFile(chart, mrg.doc)
    /\ mrg' = [mrg EXCEPT !.pc = "delete"]
    /\ UNCHANGED <<codec, req, calc, buffer, summaries, archives, ingestVars, maintVars, deltas>>

\* The consumed DeltaFiles are deleted: deleteFiles(bucket, deltaKeys).
MergeDelete ==
    /\ mrg.pc = "delete"
    /\ deltas' = deleteFiles(deltas, mrg.keys)
    /\ mrg' = [mrg EXCEPT !.pc = "done", !.merged = Len(mrg.keys)]
    /\ UNCHANGED <<codec, req, calc, storeVars, ingestVars, maintVars>>

\* The invocation ends before the merge has returned.
MergeCrash ==
    /\ mrg.pc \in {"read", "list", "download", "write", "delete"}
    /\ mrg' = [mrg EXCEPT !.pc = "crashed"]
    /\ UNCHANGED <<codec, req, calc, storeVars, ingestVars, maintVars, deltas>>

\* ------------------------------------------------------- POST /api/submit

\* A value of a JSON request body, by its type.
JsonString(s) == [type |-> "string", str |-> s, num |-> 0]

\* Numbers are held in tenths, as scores are.
JsonNumber(n) == [type |-> "number", str |-> <<>>, num |-> n]

JsonUndefined == [type |-> "undefined", str |-> <<>>, num |-> 0]

\* z.string().max(n)
StringMax(v, n) == v.type = "string" /\ Len(v.str) <= n

\* z.number().min(lo).max(hi).optional()
OptionalNumberBetween(v, lo, hi) ==
    \/ v.type = "undefined"
    \/ v.type = "number" /\ lo <= v.num /\ v.num <= hi

MaxIdLength == 256

MaxOutputLength == 1048576

MaxBatchResults == 1000

\* SubmissionRequestSchema.safeParse(body).success; the optional metadata is
\* left out of the requests.
SubmissionRequestSchema(body) ==
    /\ StringMax(body.model_id, MaxIdLength)
    /\ StringMax(body.prompt_id, MaxIdLength)
    /\ StringMax(body.output, MaxOutputLength)
    /\ OptionalNumberBetween(body.score, 0, 10)

\* The fields of the batch around its results.
BatchEnvelope(body) ==
    /\ body.suite_version.type = "string"
    /\ body.suite_hash.type = "string"
    /\ body.model_id.type = "string"
    /\ body.temperature.type = "number"
    /\ body.seed.type \in {"number", "null", "undefined"}
    /\ body.timestamp.type = "string"

\* A schema that checks the fields around the results and not the results.
EnvelopeOnly(body) == BatchEnvelope(body)

\* BatchSubmissionRequestSchema.safeParse(body).success
BatchSubmissionRequestSchema(body) ==
    /\ BatchEnvelope(body)
    /\ Len(body.results) <= MaxBatchResults
    /\ \A i \in 1..Len(body.results) : SubmissionRequestSchema(body.results[i])

\* The StorageRecord built from a parsed submission: score is
\* submission.score ?? null.
SubmissionRecord(n, userId, submission) ==
    [NewRecord(n, userId,
               [model_id |-> submission.model_id.str,
                prompt_id |-> submission.prompt_id.str,
                output |-> submission.output.str,
                date |-> today])
        EXCEPT !.score = IF submission.score.type = "number"
                         THEN submission.score.num ELSE NullScore]

\* served is the number of requests taken so far.
RequestIdle ==
    [pc |-> "idle", route |-> "none", body |-> <<>>, status |-> 0, served |-> 0]

\* Promise.all([appendToCsvBuffer(...), updateUserSummary(...)]): both calls
\* run up to their first await.
StartedCalls(userId, records) ==
    [p \in Procs |->
        IF p = 1
        THEN IF records = <<>>
             THEN [ProcIdle EXCEPT !.op = "append", !.pc = "returned"]
             ELSE [ProcIdle EXCEPT !.op = "append", !.pc = "read", !.records = records]
        ELSE IF records = <<>>
             THEN [ProcIdle EXCEPT !.op = "update", !.pc = "returned"]
             ELSE [ProcIdle EXCEPT !.op = "update", !.pc = "read",
                                   !.userId = userId, !.records = records]]

\* POST / and POST /batch up to the first await on storage: the body is
\* parsed against the schema of the route; a failure is answered with 400,
\* otherwise the records are built and the two calls are started.
SubmitPost(route, userId, body) ==
    /\ req.pc \in {"idle", "responded"}
    /\ req.served < MaxRequests
    /\ \A p \in Procs : procs[p].pc \in {"idle", "returned", "thrown"}
    /\ calls + 2 <= MaxCalls
    /\ LET success == IF route = "batch" THEN BatchSubmissionRequestSchema(body)
                      ELSE SubmissionRequestSchema(body)
           submissions == IF route = "batch" THEN body.results ELSE <<body>>
           records == [i \in 1..Len(submissions) |->
                          SubmissionRecord(nextId + i, userId, submissions[i])]
       IN IF ~success
          THEN /\ req' = [pc |-> "responded", route |-> route, body |-> body,
                          status |-> 400, served |-> req.served + 1]
               /\ UNCHANGED <<procs, calls, nextId>>
          ELSE /\ req' = [pc |-> "storing", route |-> route, body |-> body,
                          status |-> 0, served |-> req.served + 1]
               /\ procs' = StartedCalls(userId, records)
               /\ calls' = calls + 2
               /\ nextId' = nextId + Len(records)
    /\ UNCHANGED <<codec, calc, deltaVars, storeVars, maintVars, accepted, counted>>

\* Promise.all settles: a rejection leaves the handler as an error (500);
\* otherwise the response is sent, and the batch route hands
\* rebuildChartJson to waitUntil first (one such run at a time).
SubmitRespond ==
    /\ req.pc = "storing"
    /\ IF \E p \in Procs : procs[p].pc = "thrown"
       THEN /\ req' = [req EXCEPT !.pc = "responded", !.status = 500]
            /\ UNCHANGED rebuilds
       ELSE /\ \A p \in Procs : procs[p].pc = "returned"
            /\ req.route = "batch" => rebuilds["submit"].pc \in {"idle", "done"}
            /\ req' = [req EXCEPT !.pc = "responded", !.status = 200]
            /\ rebuilds' = IF req.route = "batch"
                           THEN [rebuilds EXCEPT !["submit"] = RebuildStart]
                           ELSE rebuilds
    /\ UNCHANGED <<codec, calc, deltaVars, storeVars, ingestVars, today, cmp, ers>>

\* ------------------------------------------------------------- statistics

\* JavaScript numbers that are not integers are held as exact fractions
\* num / den in lowest terms with den > 0: the operations below are those of
\* the reals, without the rounding of a double.
RECURSIVE Gcd(_, _)
Gcd(a, b) == IF b = 0 THEN a ELSE Gcd(b, a % b)

Magnitude(a) == IF a < 0 THEN 0 - a ELSE a

Frac(n, d) ==
    LET g == Gcd(Magnitude(n), Magnitude(d))
        sign == IF d < 0 THEN 0 - 1 ELSE 1
    IN [num |-> (sign * n) \div g, den |-> (sign * d) \div g]

Whole(n) == [num |-> n, den |-> 1]

Plus(x, y) == Frac(x.num * y.den + y.num * x.den, x.den * y.den)

Minus(x, y) == Frac(x.num * y.den - y.num * x.den, x.den * y.den)

Times(x, y) == Frac(x.num * y.num, x.den * y.den)

Over(x, y) == Frac(x.num * y.den, x.den * y.num)

Less(x, y) == x.num * y.den < y.num * x.den

\* Math.min, Math.max
MathMin(x, y) == IF Less(y, x) THEN y ELSE x

MathMax(x, y) == IF Less(x, y) THEN y ELSE x

\* emptyStats()
emptyStats == [n |-> 0, mean |-> Whole(0), m2 |-> Whole(0), count |-> 0]

\* An update that counts an observation only when it has no score.
UpdateCountsUnscored(stats, score) ==
    IF score = NullScore THEN [stats EXCEPT !.count = @ + 1]
    ELSE LET n == stats.n + 1
             delta == Minus(Frac(score, 10), stats.mean)
             mean == Plus(stats.mean, Over(delta, Whole(n)))
         IN [n |-> n, mean |-> mean,
             m2 |-> Plus(stats.m2, Times(delta, Minus(Frac(score, 10), mean))),
             count |-> stats.count]

\* welfordUpdate(stats, score): the score is null or a number, in tenths here.
welfordUpdate(stats, score) ==
    IF score = NullScore THEN [stats EXCEPT !.count = @ + 1]
    ELSE LET n == stats.n + 1
             delta == Minus(Frac(score, 10), stats.mean)
             mean == Plus(stats.mean, Over(delta, Whole(n)))
             delta2 == Minus(Frac(score, 10), mean)
         IN [n |-> n, mean |-> mean, m2 |-> Plus(stats.m2, Times(delta, delta2)),
             count |-> stats.count + 1]

\* A merge whose mean is the plain average of the two means.
MergeUnweighted(a, b) ==
    IF a.n + b.n = 0 THEN [emptyStats EXCEPT !.count = a.count + b.count]
    ELSE LET delta == Minus(b.mean, a.mean) IN
         [n |-> a.n + b.n,
          mean |-> Over(Plus(a.mean, b.mean), Whole(2)),
          m2 |-> Plus(Plus(a.m2, b.m2),
                      Over(Times(Times(delta, delta), Whole(a.n * b.n)), Whole(a.n + b.n))),
          count |-> a.count + b.count]

\* welfordMerge(a, b)
welfordMerge(a, b) ==
    LET count == a.count + b.count
        n == a.n + b.n
    IN IF n = 0 THEN [n |-> 0, mean |-> Whole(0), m2 |-> Whole(0), count |-> count]
       ELSE LET delta == Minus(b.mean, a.mean)
                mean == Over(Plus(Times(Whole(a.n), a.mean), Times(Whole(b.n), b.mean)),
                             Whole(n))
                m2 == Plus(Plus(a.m2, b.m2),
                           Over(Times(Times(delta, delta), Whole(a.n * b.n)), Whole(n)))
            IN [n |-> n, mean |-> mean, m2 |-> m2, count |-> count]

\* welfordVariance(stats)
welfordVariance(stats) ==
    IF stats.n < 2 THEN Whole(0) ELSE Over(stats.m2, Whole(stats.n - 1))

\* poolStats(statsList): the merges from the left, from an empty accumulator.
RECURSIVE PoolFrom(_, _)
PoolFrom(merged, statsList) ==
    IF statsList = <<>> THEN merged
    ELSE PoolFrom(welfordMerge(merged, statsList[1]), Tail(statsList))

\* A pooling that keeps the accumulator with the most scored observations.
PoolLargest(statsList) ==
    IF statsList = <<>> THEN emptyStats
    ELSE statsList[CHOOSE i \in 1..Len(statsList) :
                       \A j \in 1..Len(statsList) : statsList[j].n <= statsList[i].n]

poolStats(statsList) ==
    PoolFrom([n |-> 0, mean |-> Whole(0), m2 |-> Whole(0), count |-> 0], statsList)

\* The comparator of the sort in holmBonferroni: a.p - b.p < 0.
LowerP(a, b) == Less(a.p, b.p)

\* The loop of holmBonferroni from index i (0-based in the code, i - 1 here):
\* result.set(key, ...) replaces an earlier entry of the key.
RECURSIVE HolmLoop(_, _, _, _, _)
HolmLoop(sorted, i, maxAdjusted, alpha, result) ==
    IF i > Len(sorted) THEN result
    ELSE LET m == Len(sorted)
             adjusted == MathMin(Whole(1), Times(sorted[i].p, Whole(m - (i - 1))))
             running == MathMax(maxAdjusted, adjusted)
         IN HolmLoop(sorted, i + 1, running, alpha,
                     MapSet(result, sorted[i].key,
                            [adjusted |-> running, significant |-> Less(running, alpha)]))

\* A correction without the running maximum.
HolmUnordered(pValues, alpha) ==
    LET sorted == SortBy(pValues, LowerP) IN
    [k \in {pValues[i].key : i \in 1..Len(pValues)} |->
        LET i == CHOOSE i \in 1..Len(sorted) : sorted[i].key = k
            adjusted == MathMin(Whole(1), Times(sorted[i].p, Whole(Len(sorted) - (i - 1))))
        IN [adjusted |-> adjusted, significant |-> Less(adjusted, alpha)]]

\* holmBonferroni(pValues, alpha)
holmBonferroni(pValues, alpha) ==
    HolmLoop(SortBy(pValues, LowerP), 1, Whole(0), alpha, <<>>)

\* alpha: number = 0.05
DefaultAlpha == Frac(5, 100)

\* The statistics calls of one behaviour: the accumulators built so far, the
\* results of pooling them, the p-values given and their correction, the
\* rows of the comparison query.
CalcIdle ==
    [stats |-> <<>>, ops |-> 0, pooled |-> <<>>, pValues |-> <<>>, holm |-> <<>>,
     comparisons |-> <<>>, done |-> FALSE]

\* welfordUpdate on the i-th accumulator.
WelfordUpdateStep(i, score) ==
    /\ calc.ops < MaxOps
    /\ calc' = [calc EXCEPT !.stats[i] = welfordUpdate(@, score), !.ops = @ + 1]
    /\ UNCHANGED <<codec, req, deltaVars, storeVars, ingestVars, maintVars>>

\* The i-th accumulator becomes its merge with the j-th.
WelfordMergeStep(i, j) ==
    /\ calc.ops < MaxOps
    /\ i # j
    /\ calc' = [calc EXCEPT !.stats[i] = welfordMerge(@, calc.stats[j]), !.ops = @ + 1]
    /\ UNCHANGED <<codec, req, deltaVars, storeVars, ingestVars, maintVars>>

\* The three accumulators are merged in three groupings, and the first two
\* are pooled.
PoolStep ==
    /\ LET a == calc.stats[1]
           b == calc.stats[2]
           c == calc.stats[3]
       IN calc' = [calc EXCEPT !.pooled =
              [left |-> welfordMerge(welfordMerge(a, b), c),
               right |-> welfordMerge(a, welfordMerge(b, c)),
               swapped |-> welfordMerge(b, welfordMerge(a, c)),
               pair |-> poolStats(<<a, b>>),
               of |-> <<a, b, c>>]]
    /\ UNCHANGED <<codec, req, deltaVars, storeVars, ingestVars, maintVars>>

\* holmBonferroni on the p-values given.
HolmStep ==
    /\ ~calc.done
    /\ calc' = [calc EXCEPT !.holm = holmBonferroni(calc.pValues, DefaultAlpha),
                            !.done = TRUE]
    /\ UNCHANGED <<codec, req, deltaVars, storeVars, ingestVars, maintVars>>

\* ------------------------------------------- GET /api/user/me/comparison

\* JSON null in the place of a number.
NullNumber == [num |-> 0, den |-> 0]

\* The keys of an object as a sequence: dates in their order, other keys
\* in one fixed order (the order of Object.entries is the insertion order;
\* the rows are sorted by model at the end and the family of p-values is
\* sorted by p).
RECURSIVE ObjectKeys(_)
ObjectKeys(keys) ==
    IF keys = {} THEN <<>>
    ELSE LET k == CHOOSE k \in keys : \A o \in keys \ {k} : ~StrBefore(o, k)
         IN <<k>> \o ObjectKeys(keys \ {k})

\* isV1Summary: date_counts and no version.
isV1Summary(obj) == "date_counts" \in DOMAIN obj /\ "version" \notin DOMAIN obj

\* migrateUserSummaryV1: accumulators that keep the counts only.
migrateUserSummaryV1(v1) ==
    [version |-> 2,
     date_stats |-> [d \in DOMAIN v1.date_counts |->
                        [m \in DOMAIN v1.date_counts[d] |->
                            [emptyStats EXCEPT !.count = v1.date_counts[d][m]]]],
     model_stats |->
         [m \in UNION {DOMAIN v1.date_counts[d] : d \in DOMAIN v1.date_counts} |->
             [emptyStats EXCEPT !.count = SumModel(v1.date_counts, DOMAIN v1.date_counts, m)]],
     total_submissions |-> v1.total_submissions,
     total_scored |-> 0]

\* readUserSummary of the Welford-shaped summaries: null (found = FALSE)
\* without an object.
readStatsSummary(obj) ==
    LET got == downloadFileWithEtag(obj) IN
    IF ~got.found THEN [found |-> FALSE, summary |-> <<>>]
    ELSE [found |-> TRUE,
          summary |-> IF isV1Summary(got.body) THEN migrateUserSummaryV1(got.body)
                      ELSE got.body]

\* readChartJson of the Welford-shaped chart.
readStatsChart(obj) ==
    LET got == downloadFileWithEtag(obj) IN
    IF ~got.found
    THEN [version |-> 2, data |-> <<>>, models |-> {}, total_submissions |-> 0,
          total_scored |-> 0]
    ELSE got.body

\* communityByModel[model]: the accumulators of the model over the dates.
CommunityDays(chartDoc, model) ==
    LET dates == ObjectKeys({d \in DOMAIN chartDoc.data : model \in DOMAIN chartDoc.data[d]})
    IN [i \in 1..Len(dates) |-> chartDoc.data[dates[i]][model]]

\* A test that is made whatever the numbers of scored observations.
WelchAlways(a, b, pValue) ==
    [made |-> TRUE, pValue |-> pValue]

\* welchTTest(a, b): null (made = FALSE) unless both sides have n >= 2; the
\* p-value is 1 when both variances are 0 and else the value of
\* tDistributionPValue, which is given here; t, df and Cohen's d are left out.
welchTTest(a, b, pValue) ==
    IF a.n < 2 \/ b.n < 2 THEN [made |-> FALSE, pValue |-> NullNumber]
    ELSE LET sea == Over(welfordVariance(a), Whole(a.n))
             seb == Over(welfordVariance(b), Whole(b.n))
         IN IF Plus(sea, seb) = Whole(0) THEN [made |-> TRUE, pValue |-> Whole(1)]
            ELSE [made |-> TRUE, pValue |-> pValue]

\* The row pushed for a model of the identity that the chart has as well.
ComparisonRow(model, userStats, communityPooled, welch) ==
    [model |-> model,
     user_n |-> userStats.n,
     user_mean |-> userStats.mean,
     user_variance |-> welfordVariance(userStats),
     community_n |-> communityPooled.n,
     community_mean |-> communityPooled.mean,
     community_variance |-> welfordVariance(communityPooled),
     p_value |-> IF welch.made THEN welch.pValue ELSE NullNumber,
     p_adjusted |-> NullNumber,
     significant |-> FALSE]

\* The handler after its two reads: the rows and the p-values of the models
\* in key order, the correction, the rows sorted by model. pOf gives the
\* value of tDistributionPValue for each model.
Comparison(summary, chartDoc, pOf) ==
    LET models == SelectSeq(ObjectKeys(DOMAIN summary.model_stats),
                      LAMBDA m : \E d \in DOMAIN chartDoc.data : m \in DOMAIN chartDoc.data[d])
        pooled(m) == poolStats(CommunityDays(chartDoc, m))
        welch(m) == welchTTest(summary.model_stats[m], pooled(m), pOf[m])
        rows == [i \in 1..Len(models) |->
                    ComparisonRow(models[i], summary.model_stats[models[i]],
                                  pooled(models[i]), welch(models[i]))]
        tested == SelectSeq(models, LAMBDA m : welch(m).made)
        pValues == [i \in 1..Len(tested) |->
                       [key |-> tested[i], p |-> welch(tested[i]).pValue]]
        corrected == IF Len(pValues) > 0 THEN holmBonferroni(pValues, DefaultAlpha)
                     ELSE <<>>
    IN [pValues |-> pValues,
        comparisons |->
            [i \in 1..Len(rows) |->
                IF rows[i].model \in DOMAIN corrected
                THEN [rows[i] EXCEPT !.p_adjusted = corrected[rows[i].model].adjusted,
                                     !.significant = corrected[rows[i].model].significant]
                ELSE rows[i]]]

\* GET /me/comparison for the identity: no rows without a summary.
ComparisonGet(userId, pOf) ==
    /\ ~calc.done
    /\ LET read == readStatsSummary(summaries[userId])
           chartDoc == readStatsChart(chart)
       IN calc' = IF ~read.found
                  THEN [calc EXCEPT !.done = TRUE]
                  ELSE LET out == Comparison(read.summary, chartDoc, pOf) IN
                       [calc EXCEPT !.pValues = out.pValues,
                                    !.comparisons = out.comparisons,
                                    !.done = TRUE]
    /\ UNCHANGED <<codec, req, deltaVars, storeVars, ingestVars, maintVars>>

\* ------------------------------------------------------ the ingest system

StoreInit ==
    /\ buffer = NoObject
    /\ summaries = [u \in Users |-> NoObject]
    /\ archives = [d \in 1..Len(Dates) |-> NoObject]
    /\ chart = NoObject

MaintInit ==
    /\ cmp = CompactIdle
    /\ ers = EraseIdle
    /\ rebuilds = [c \in Callers |-> RebuildIdle]

IngestInit ==
    /\ procs = [p \in Procs |-> ProcIdle]
    /\ calls = 0
    /\ nextId = 0
    /\ accepted = {}
    /\ counted = [u \in Users |-> 0]

\* The submissions drawn for the concurrent calls: an append is decided by
\* the rows it adds, a summary update by the user, the dates and the models.
AppendBatches ==
    {<<>>,
     <<[model_id |-> <<"m1">>, prompt_id |-> <<"p1">>, output |-> <<"A">>, date |-> 1]>>}

UpdateBatches ==
    {<<>>,
     <<[model_id |-> <<"m1">>, prompt_id |-> <<"p1">>, output |-> <<"A">>, date |-> 1]>>,
     <<[model_id |-> <<"m2">>, prompt_id |-> <<"p1">>, output |-> <<"A">>, date |-> 2]>>,
     <<[model_id |-> ProtoKey, prompt_id |-> <<"p1">>, output |-> <<"A">>, date |-> 1]>>}

\* The buffer a completed compaction leaves: the header line alone.
HeadersOnly == [exists |-> TRUE, body |-> CSV_HEADERS \o <<LF>>, etag |-> 1]

\* The bucket is empty, or holds the buffer that a compaction has reset.
IngestInitAll ==
    /\ codec = CodecIdle
    /\ DeltaInit
    /\ req = RequestIdle
    /\ calc = CalcIdle
    /\ buffer \in {NoObject, HeadersOnly}
    /\ summaries = [u \in Users |-> NoObject]
    /\ archives = [d \in 1..Len(Dates) |-> NoObject]
    /\ chart = NoObject
    /\ IngestInit
    /\ today = 1
    /\ MaintInit

IngestNext ==
    \E p \in Procs :
        \/ \E b \in AppendBatches : AppendCall(p, NewRecords(nextId, <<"u1">>, b))
        \/ AppendRead(p)
        \/ AppendWrite(p)
        \/ \E u \in Users, b \in UpdateBatches : UpdateCall(p, u, NewRecords(0, u, b))
        \/ UpdateRead(p)
        \/ UpdateWrite(p)

SpecIngest == IngestInitAll /\ [][IngestNext]_vars

\* ------------------------------------------------ properties of ingestion

\* The text holds the row as a contiguous run of characters.
ContainsRow(text, row) ==
    \E i \in 1..(Len(text) - Len(row) + 1) : SubSeq(text, i, i + Len(row) - 1) = row

\* C1: the buffer holds the rows of every batch whose appendToCsvBuffer call
\* has returned without error, also when the appends ran concurrently.
C1_NoBatchDropped ==
    \A r \in accepted : buffer.exists /\ ContainsRow(buffer.body, recordToCsvRow(r))

\* A call in its read-then-write loop met a conflict on its upload.
Conflict(p) ==
    /\ procs[p].pc = "write"
    /\ procs[p].etag # NoEtag
    /\ IF procs[p].op = "append" THEN ~EtagMatches(buffer, procs[p].etag)
       ELSE ~EtagMatches(summaries[procs[p].userId], procs[p].etag)

\* C6: a call makes at most MAX_RETRIES read-then-write attempts: a conflict
\* on attempt 1 or 2 starts a new attempt, a conflict on attempt 3 ends the
\* call with the 412 error.
C6_BoundedRetry ==
    /\ [](\A p \in Procs :
            /\ procs[p].attempt + 1 <= MAX_RETRIES
            /\ procs[p].pc = "thrown" =>
                   procs[p].status = PreconditionFailed
                   /\ procs[p].attempt + 1 = MAX_RETRIES)
    /\ [][\A p \in Procs :
            Conflict(p) /\ procs'[p] # procs[p] =>
                IF procs[p].attempt + 1 < MAX_RETRIES
                THEN procs'[p].pc = "read" /\ procs'[p].attempt = procs[p].attempt + 1
                ELSE procs'[p].pc = "thrown"
                     /\ procs'[p].status = PreconditionFailed]_vars

\* An appendToCsvBuffer call has met its third conflict and thrown.
C6_Witness ==
    \E p \in Procs :
        /\ procs[p].op = "append"
        /\ procs[p].pc = "thrown" /\ procs[p].status = PreconditionFailed
        /\ procs[p].attempt + 1 = MAX_RETRIES

\* total_submissions of the stored summary of a user, 0 when there is none.
StoredTotal(u) ==
    IF summaries[u].exists THEN summaries[u].body.total_submissions ELSE 0

\* C8: the stored total_submissions of an identity is the number of records
\* passed to the updateUserSummary calls that have returned, also when the
\* calls ran concurrently.
C8_NoLostUpdate == \A u \in Users : StoredTotal(u) = counted[u]

RECURSIVE SumCounts(_)
SumCounts(counts) ==
    IF DOMAIN counts = {} THEN 0
    ELSE LET k == CHOOSE k \in DOMAIN counts : TRUE IN
         counts[k] + SumCounts([x \in DOMAIN counts \ {k} |-> counts[x]])

RECURSIVE SumByDate(_)
SumByDate(byDate) ==
    IF DOMAIN byDate = {} THEN 0
    ELSE LET d == CHOOSE d \in DOMAIN byDate : TRUE IN
         SumCounts(byDate[d]) + SumByDate([x \in DOMAIN byDate \ {d} |-> byDate[x]])

\* C9: in every stored summary total_submissions is the sum of
\* submissions_by_date over all dates and models, and the sum of
\* model_submissions over all models.
C9_TotalIsSum ==
    \A u \in Users :
        summaries[u].exists =>
            /\ summaries[u].body.total_submissions
                   = SumByDate(summaries[u].body.submissions_by_date)
            /\ summaries[u].body.total_submissions
                   = SumCounts(summaries[u].body.model_submissions)

\* ------------------------------------------------------- codec round trip

CodecAlphabet == {"a", COMMA, DQUOTE, LF}

RECURSIVE TextsOfLen(_)
TextsOfLen(n) ==
    IF n = 0 THEN {<<>>}
    ELSE {Append(t, c) : t \in TextsOfLen(n - 1), c \in CodecAlphabet}

Texts == UNION {TextsOfLen(n) : n \in 0..MaxFieldLen}

MetadataTexts == {<<"{", "}">>, <<"{", DQUOTE, "k", DQUOTE, ":", "1", "}">>}

CodecRecords ==
    [id : {<<"r1">>}, timestamp : {<<"t1">>}, user_id : {<<"u1">>},
     model_id : Texts, prompt_id : {<<"p1">>}, output : Texts,
     output_hash : {<<"h1">>}, metadata_json : MetadataTexts,
     year : {2024}, month : {1, 12}, day : {9},
     score : {NullScore, 0, 5, 10}]

CodecInit ==
    /\ codec \in [pc : {"start"}, rec : CodecRecords, row : {<<>>}, parsed : {<<>>}]
    /\ StoreInit
    /\ IngestInit
    /\ today = 1
    /\ MaintInit
    /\ DeltaInit
    /\ req = RequestIdle
    /\ calc = CalcIdle

CodecEncode ==
    /\ codec.pc = "start"
    /\ codec' = [codec EXCEPT !.pc = "encoded", !.row = recordToCsvRow(codec.rec)]
    /\ UNCHANGED <<storeVars, ingestVars, maintVars, deltaVars, req, calc>>

CodecDecode ==
    /\ codec.pc = "encoded"
    /\ codec' = [codec EXCEPT !.pc = "decoded", !.parsed = parseCsvRow(codec.row)]
    /\ UNCHANGED <<storeVars, ingestVars, maintVars, deltaVars, req, calc>>

CodecNext == CodecEncode \/ CodecDecode

SpecCodec == CodecInit /\ [][CodecNext]_vars

\* C7: decoding the encoded row of any record gives back the record.
C7_RoundTrip == codec.pc = "decoded" => codec.parsed = <<codec.rec>>

\* ------------------------------------------- appends against compaction

\* The object a sequence of records stored as CSV makes.
StoredCsv(records) ==
    [exists |-> TRUE, body |-> CSV_HEADERS \o <<LF>> \o RowsOf(records), etag |-> 1]

\* A submission of the day.
SubmissionOn(day) ==
    [model_id |-> <<"m1">>, prompt_id |-> <<"p1">>, output |-> <<"A">>, date |-> day]

\* The process that serves the ingest requests while compaction runs.
Appenders == {1}

\* The buffer exists: it holds the header line alone, or one record accepted
\* the day before.
CompactInit ==
    /\ codec = CodecIdle
    /\ DeltaInit
    /\ req = RequestIdle
    /\ calc = CalcIdle
    /\ \E seed \in {<<>>, <<SubmissionOn(1)>>} :
           LET records == NewRecords(0, <<"u1">>, seed) IN
           /\ buffer = StoredCsv(records)
           /\ accepted = RecordsOf(records)
           /\ nextId = Len(records)
    /\ summaries = [u \in Users |-> NoObject]
    /\ archives = [d \in 1..Len(Dates) |-> NoObject]
    /\ chart = NoObject
    /\ procs = [p \in Procs |-> ProcIdle]
    /\ calls = 0
    /\ counted = [u \in Users |-> 0]
    /\ today = 2
    /\ MaintInit

CompactNext ==
    \/ \E p \in Appenders :
          \/ AppendCall(p, NewRecords(nextId, <<"u1">>, <<SubmissionOn(today)>>))
          \/ AppendRead(p)
          \/ AppendWrite(p)
    \/ CompactCall
    \/ CompactRead
    \/ CompactArchive
    \/ CompactUpload
    \/ CompactFail
    \/ CompactReset
    \/ RebuildStep("compact")
    \/ CompactReturn
    \/ Midnight

SpecCompact == CompactInit /\ [][CompactNext]_vars

\* How many records of the log carry the id of r.
Occurrences(r) ==
    Cardinality({i \in 1..Len(LogRecords) : LogRecords[i].id = r.id})

\* C2: every record whose append has returned is in the buffer or in an
\* archive partition, under any interleaving of appends and compaction runs.
C2_LogIsComplete == \A r \in accepted : Occurrences(r) >= 1

\* A compaction run that followed a failed run has returned, and no append
\* was made in between.
RecoveredRun ==
    /\ cmp.pc = "done" /\ cmp.chartRebuilt
    /\ cmp.failures > 0
    /\ calls = 0

\* C10: when a run has failed between the archive upload and the buffer
\* reset, the next run leaves each accepted record once in the union of the
\* archives and the buffer, and its rebuild counts each record once.
C10_NoDuplicates ==
    RecoveredRun =>
        /\ \A r \in accepted : Occurrences(r) = 1
        /\ chart.exists
        /\ chart.body.total_submissions = Cardinality(accepted)

\* --------------------------------------------------------------- erasure

\* The records in storage when the erase request arrives: two archived, three
\* in the buffer, with an output of plain text, of a comma and a quote, and
\* of two lines.
E1 ==
    NewRecord(1, <<"u1">>,
        [model_id |-> <<"m1">>, prompt_id |-> <<"p1">>, output |-> <<"A">>, date |-> 1])

E2 ==
    NewRecord(2, <<"u2">>,
        [model_id |-> <<"m1">>, prompt_id |-> <<"p1">>, output |-> <<"B">>, date |-> 1])

E3 ==
    NewRecord(3, <<"u2">>,
        [model_id |-> <<"m1">>, prompt_id |-> <<"p1">>, output |-> <<"B">>, date |-> 2])

E4 ==
    NewRecord(4, <<"u1">>,
        [model_id |-> <<"m1">>, prompt_id |-> <<"p1">>, output |-> <<COMMA, DQUOTE>>,
         date |-> 2])

E5 ==
    NewRecord(5, <<"u1">>,
        [model_id |-> <<"m2">>, prompt_id |-> <<"p1">>, output |-> <<"a", LF, "b">>,
         date |-> 2])

SeedRecords == {E1, E2, E3, E4, E5}

ArchiveSeeds == {<<>>, <<E1>>, <<E2>>, <<E1, E2>>}

BufferSeeds ==
    {<<>>, <<E3>>, <<E4>>, <<E5>>, <<E3, E4>>, <<E4, E3>>, <<E3, E5>>, <<E4, E3, E5>>}

\* The text of some stored object holds the row of the record.
Stored(r) ==
    \/ buffer.exists /\ ContainsRow(buffer.body, recordToCsvRow(r))
    \/ \E d \in 1..Len(Dates) :
          archives[d].exists /\ ContainsRow(archives[d].body, recordToCsvRow(r))

\* The summary updateUserSummary has stored for the records of a user.
SummaryOf(u, records) ==
    LET own == SelectSeq(records, LAMBDA r : r.user_id = u) IN
    IF own = <<>> THEN NoObject
    ELSE [exists |-> TRUE, body |-> CountRecords(EmptySummary, own), etag |-> 1]

\* Storage after ingests and a compaction on day 1: an archive partition, a
\* buffer (absent before the first ingest), the summaries of the submitters
\* and the ChartDocument of a rebuild.
EraseInit ==
    /\ codec = CodecIdle
    /\ DeltaInit
    /\ req = RequestIdle
    /\ calc = CalcIdle
    /\ \E archived \in ArchiveSeeds, buffered \in BufferSeeds, present \in BOOLEAN :
           /\ (~present => buffered = <<>>)
           /\ archives = [d \in 1..Len(Dates) |->
                  IF d = 1 /\ archived # <<>> THEN StoredCsv(archived) ELSE NoObject]
           /\ buffer = IF present THEN StoredCsv(buffered) ELSE NoObject
           /\ summaries = [u \in Users |-> SummaryOf(u, archived \o buffered)]
           /\ accepted = RecordsOf(archived \o buffered)
           /\ chart = uploadFile(NoObject,
                  BuildChart(archived \o buffered,
                      Cardinality({u \in Users :
                          SummaryOf(u, archived \o buffered).exists})))
    /\ procs = [p \in Procs |-> ProcIdle]
    /\ calls = 0
    /\ nextId = Cardinality(SeedRecords)
    /\ counted = [u \in Users |-> 0]
    /\ today = 2
    /\ MaintInit

EraseNext ==
    \/ \E u \in Users : EraseCall(u)
    \/ EraseRead
    \/ EraseWrite
    \/ EraseDeleteSummary
    \/ RebuildStep("erase")
    \/ EraseReturn

SpecErase == EraseInit /\ [][EraseNext]_vars

\* The records of a (date, model) cell that are stored and not of the user.
OthersStored(u, date, model) ==
    {r \in SeedRecords :
        Stored(r) /\ r.user_id # u /\ DateStr(r) = date /\ r.model_id = model}

\* C3: when the erase request of u has returned, every (date, model) counter
\* of the ChartDocument counts the stored records of the other users only,
\* and u is not among the contributors, wherever the records of u were.
C3_ErasedFromChart ==
    ers.pc = "done" =>
        /\ chart.exists
        /\ \A date \in DOMAIN chart.body.data :
               \A model \in DOMAIN chart.body.data[date] :
                   chart.body.data[date][model].submissions
                       = Cardinality(OthersStored(ers.userId, date, model))
        /\ chart.body.total_contributors
               = Cardinality({u \in Users \ {ers.userId} : summaries[u].exists})

\* The places of the text where the row of a record of the user starts.
RowsOfUser(text, u) ==
    {i \in 1..Len(text) :
        \E r \in SeedRecords :
            /\ r.user_id = u
            /\ i + Len(recordToCsvRow(r)) - 1 <= Len(text)
            /\ SubSeq(text, i, i + Len(recordToCsvRow(r)) - 1) = recordToCsvRow(r)}

\* C4: when deleteUserFromBuffer(u) has returned, the buffer holds no row of
\* u, whatever the output fields hold, and the number returned is the number
\* of rows of u in the buffer that was read.
C4_RowsRemoved ==
    ers.pc = "deleteSummary" =>
        /\ buffer.exists => RowsOfUser(buffer.body, ers.userId) = {}
        /\ ers.removed = Cardinality(RowsOfUser(ers.csv, ers.userId))

\* --------------------------------------------------------- drift counting

\* The (model, prompt) pairs, outputs and days of the submissions rebuilt.
DriftSubs ==
    [model_id : {<<"m", "|", "x">>}, prompt_id : {<<"p">>},
     output : {<<"A">>, <<"B">>}, date : 1..Len(Dates)]
    \cup
    [model_id : {<<"m">>}, prompt_id : {<<"x", "|", "p">>},
     output : {<<"A">>, <<"B">>}, date : 1..Len(Dates)]

\* A log of up to MaxRecords records, its first part compacted into an
\* archive partition, the rest in the buffer.
RebuildInit ==
    /\ codec = CodecIdle
    /\ DeltaInit
    /\ req = RequestIdle
    /\ calc = CalcIdle
    /\ \E n \in 0..MaxRecords :
         \E subs \in [1..n -> DriftSubs], k \in {0, n} :
           LET records == NewRecords(0, <<"u1">>, subs)
               archived == SubSeq(records, 1, k)
               buffered == SubSeq(records, k + 1, n)
           IN /\ archives = [d \in 1..Len(Dates) |->
                     IF d = Len(Dates) /\ archived # <<>>
                     THEN StoredCsv(archived) ELSE NoObject]
              /\ buffer = StoredCsv(buffered)
              /\ summaries = [u \in Users |-> SummaryOf(u, records)]
              /\ accepted = RecordsOf(records)
              /\ nextId = n
    /\ chart = NoObject
    /\ procs = [p \in Procs |-> ProcIdle]
    /\ calls = 0
    /\ counted = [u \in Users |-> 0]
    /\ today = Len(Dates)
    /\ MaintInit

RebuildNext ==
    \/ RebuildCall("admin")
    \/ RebuildStep("admin")

SpecRebuild == RebuildInit /\ [][RebuildNext]_vars

\* The observations of a (model, prompt) pair in the log.
Observations(model, prompt) ==
    {i \in 1..Len(LogRecords) :
        LogRecords[i].model_id = model /\ LogRecords[i].prompt_id = prompt}

\* The fingerprint last observed for the pair on the day of observation i.
LastObserved(model, prompt, i) ==
    LET sameDay == {j \in Observations(model, prompt) :
                        DateStr(LogRecords[j]) = DateStr(LogRecords[i])}
        last == CHOOSE j \in sameDay : \A l \in sameDay : l <= j
    IN LogRecords[last].output_hash

\* On the date, the pair's fingerprint differs from the one of the previous
\* date on which the pair was observed.
Drifts(model, prompt, date) ==
    \E i \in Observations(model, prompt) :
        /\ DateStr(LogRecords[i]) = date
        /\ \E j \in Observations(model, prompt) :
              /\ DateBefore(LogRecords[j], LogRecords[i])
              /\ \A l \in Observations(model, prompt) :
                     DateBefore(LogRecords[l], LogRecords[i])
                         => ~DateBefore(LogRecords[j], LogRecords[l])
              /\ LastObserved(model, prompt, i) # LastObserved(model, prompt, j)

\* C5: in the ChartDocument of a rebuild, drifted_prompts of a (date, model)
\* entry is the number of prompts whose pair drifts on the date: a first
\* observation and an unchanged fingerprint count 0, a changed one counts 1.
C5_DriftRule ==
    rebuilds["admin"].pc = "done" =>
        \A date \in DOMAIN chart.body.data :
            \A model \in DOMAIN chart.body.data[date] :
                chart.body.data[date][model].drifted_prompts
                    = Cardinality({prompt \in {LogRecords[i].prompt_id : i \in 1..Len(LogRecords)} :
                                       Drifts(model, prompt, date)})

\* ------------------------------------------------- compaction on its own

\* The buffer the cron trigger can find: none, the header line alone, rows
\* that decode, a row cut by a line break (no line of it decodes).
CronBuffers ==
    {NoObject, StoredCsv(<<>>), StoredCsv(<<E3>>), StoredCsv(<<E5>>),
     StoredCsv(<<E3, E4>>)}

\* Storage on day 2, with or without an archive partition of day 1.
CronInit ==
    /\ codec = CodecIdle
    /\ DeltaInit
    /\ req = RequestIdle
    /\ calc = CalcIdle
    /\ buffer \in CronBuffers
    /\ \E archived \in ArchiveSeeds :
           /\ archives = [d \in 1..Len(Dates) |->
                  IF d = 1 /\ archived # <<>> THEN StoredCsv(archived) ELSE NoObject]
           /\ chart = IF archived = <<>> THEN NoObject
                      ELSE uploadFile(NoObject, BuildChart(archived, 0))
    /\ summaries = [u \in Users |-> NoObject]
    /\ accepted = {}
    /\ procs = [p \in Procs |-> ProcIdle]
    /\ calls = 0
    /\ nextId = Cardinality(SeedRecords)
    /\ counted = [u \in Users |-> 0]
    /\ today = 2
    /\ MaintInit

CronNext ==
    \/ CompactCall
    \/ CompactRead
    \/ CompactArchive
    \/ CompactUpload
    \/ CompactFail
    \/ CompactReset
    \/ RebuildStep("compact")
    \/ CompactReturn
    \/ Midnight

SpecCron == CronInit /\ [][CronNext]_vars

\* The buffer is absent or no row of it decodes.
NoDecodableRows == ~buffer.exists \/ parseCsvBody(buffer.body) = <<>>

\* C11: a compactBuffer run that finds the buffer absent or without a
\* decodable row returns archived = 0 and writes no archive, no buffer and
\* no ChartDocument; so does a run right after a completed compaction.
C11_EmptyRunWritesNothing ==
    [][(cmp.pc = "read" /\ NoDecodableRows /\ cmp' # cmp) =>
          /\ cmp'.pc = "done"
          /\ cmp'.archived = 0 /\ ~cmp'.chartRebuilt
          /\ storeVars' = storeVars]_vars

\* A second run has returned without work after a run that archived.
C11_Witness ==
    /\ cmp.pc = "done" /\ cmp.runs > 1
    /\ cmp.archived = 0 /\ ~cmp.chartRebuilt
    /\ cmp.failures = 0
    /\ buffer.etag > 1 /\ buffer.body = CSV_HEADERS \o <<LF>>
    /\ \E d \in 1..Len(Dates) : archives[d].exists

\* ------------------------------------------------ many archive partitions

\* The calendar day of the n-th daily compaction, a later day for a larger n.
ArchiveDay(n) ==
    [year |-> 2025 + ((n - 1) \div 336),
     month |-> (((n - 1) \div 28) % 12) + 1,
     day |-> ((n - 1) % 28) + 1]

\* The record accepted on the day of the n-th compaction.
ArchivedRecord(n) ==
    [NewRecord(1, <<"u1">>, SubmissionOn(1)) EXCEPT
        !.id = <<"r">> \o NatToStr(n),
        !.timestamp = DateStr(ArchiveDay(n)) \o <<"T", "Z">>,
        !.year = ArchiveDay(n).year,
        !.month = ArchiveDay(n).month,
        !.day = ArchiveDay(n).day]

\* The numbers of archive partitions a rebuild is run over: a few, and one
\* more than a listing returns.
PartitionCounts == {0, 1, 2, 3, DefaultMaxKeys + 1}

\* A bucket after n daily compactions of one record each, with any of the
\* buffers and any of the summary objects; the bucket of more partitions than
\* a listing returns has an empty buffer and no summary object.
ArchivesInit ==
    /\ codec = CodecIdle
    /\ DeltaInit
    /\ req = RequestIdle
    /\ calc = CalcIdle
    /\ \E n \in PartitionCounts, b \in CronBuffers, contributors \in SUBSET Users :
           /\ n > DefaultMaxKeys => b = StoredCsv(<<>>) /\ contributors = {}
           /\ archives = [d \in 1..n |-> StoredCsv(<<ArchivedRecord(d)>>)]
           /\ buffer = b
           /\ summaries = [u \in Users |->
                  IF u \in contributors THEN uploadFile(NoObject, EmptySummary)
                  ELSE NoObject]
    /\ chart = NoObject
    /\ accepted = {}
    /\ procs = [p \in Procs |-> ProcIdle]
    /\ calls = 0
    /\ nextId = 0
    /\ counted = [u \in Users |-> 0]
    /\ today = Len(Dates)
    /\ MaintInit

ArchivesNext == RebuildRun("admin")

SpecArchives == ArchivesInit /\ [][ArchivesNext]_vars

\* The rows that decode, over every archive partition and the buffer.
DecodableRows == Len(LogRecords)

\* C12: when a rebuild has completed with no concurrent writer,
\* total_submissions is the number of decodable rows of all the archive
\* partitions and the buffer, however many partitions there are.
C12_TotalCountsEveryRow ==
    rebuilds["admin"].pc = "done" =>
        chart.exists /\ chart.body.total_submissions = DecodableRows

\* ------------------------------------------------- overlapping rebuilds

\* The two rebuildChartJson runs in flight at the same time.
OverlapRuns == {"admin", "erase"}

\* Storage as EraseInit has it, with the ChartDocument of the last
\* compaction (it misses the buffered records) or none; two runs have been
\* started and no other request is served.
OverlapInit ==
    /\ codec = CodecIdle
    /\ DeltaInit
    /\ req = RequestIdle
    /\ calc = CalcIdle
    /\ \E archived \in ArchiveSeeds, buffered \in BufferSeeds, present \in BOOLEAN :
           /\ (~present => buffered = <<>>)
           /\ archives = [d \in 1..Len(Dates) |->
                  IF d = 1 /\ archived # <<>> THEN StoredCsv(archived) ELSE NoObject]
           /\ buffer = IF present THEN StoredCsv(buffered) ELSE NoObject
           /\ summaries = [u \in Users |-> SummaryOf(u, archived \o buffered)]
           /\ accepted = RecordsOf(archived \o buffered)
           /\ chart = IF archived = <<>> THEN NoObject
                      ELSE [exists |-> TRUE, etag |-> 1,
                            body |-> BuildChart(archived,
                                CountContributors([u \in Users |->
                                    SummaryOf(u, archived)]))]
    /\ procs = [p \in Procs |-> ProcIdle]
    /\ calls = 0
    /\ nextId = Cardinality(SeedRecords)
    /\ counted = [u \in Users |-> 0]
    /\ today = 2
    /\ cmp = CompactIdle
    /\ ers = EraseIdle
    /\ rebuilds = [c \in Callers |->
           IF c \in OverlapRuns THEN RebuildStart ELSE RebuildIdle]

OverlapNext == \E c \in OverlapRuns : RebuildStep(c)

SpecOverlap == OverlapInit /\ [][OverlapNext]_vars

\* The document one run on its own leaves for the storage as it stands.
SingleRunDocument ==
    BuildChart(LogRecords, Cardinality({u \in Users : summaries[u].exists}))

\* C13: two overlapping rebuildChartJson runs over archives, buffer and
\* summaries that do not change leave, after each of their writes, the
\* ChartDocument a single run produces.
C13_OverlapConverges ==
    (\E c \in OverlapRuns : rebuilds[c].pc = "done") =>
        chart.exists /\ chart.body = SingleRunDocument

\* Both runs have written, over a ChartDocument that missed buffered records.
C13_Witness ==
    /\ \A c \in OverlapRuns : rebuilds[c].pc = "done"
    /\ chart.etag = 3
    /\ archives[1].exists
    /\ buffer.exists /\ parseCsvBody(buffer.body) # <<>>
    /\ chart.body = SingleRunDocument

\* The summary objects another storage state can hold beside the same
\* archives and buffer: each user's summary as it is, or deleted.
OtherSummaries == {sums \in [Users -> {NoObject} \cup {summaries[u] : u \in Users}] :
                      \A u \in Users : sums[u] \in {NoObject, summaries[u]}}

\* C14: the ChartDocument a rebuild writes is the one a rebuild writes over
\* any storage with the same archive partitions and the same buffer,
\* whatever its other objects are.
C14_ChartFromLogOnly ==
    (\E c \in OverlapRuns : rebuilds[c].pc = "done") =>
        \A sums \in OtherSummaries :
            chart.body = RebuiltChart(archives, buffer, sums)

\* ------------------------------------------- rebuilds against appends

\* Two rebuildChartJson runs (the batch route starts one after each batch,
\* the admin route on request) while submissions are appended.
StaleNext ==
    \/ \E p \in Appenders :
          \/ AppendCall(p, NewRecords(nextId, <<"u1">>, <<SubmissionOn(today)>>))
          \/ AppendRead(p)
          \/ AppendWrite(p)
    \/ \E c \in OverlapRuns : RebuildCall(c) \/ RebuildStep(c)

SpecStale == CronInit /\ [][StaleNext]_vars

\* C15: the ChartDocument is written conditionally on the version read, so a
\* run that computed its document from an older snapshot does not replace a
\* document written after that snapshot.  With a log that only grows, the
\* stored document counts at least the records counted by the document of
\* every run that has written.
C15_NoStaleOverwrite ==
    \A c \in OverlapRuns :
        rebuilds[c].pc = "done" =>
            /\ chart.exists
            /\ chart.body.total_submissions >= rebuilds[c].doc.total_submissions

\* ------------------------------------------------ incremental delta merge

\* The batches an ingest request of the day can carry: none, one record, the
\* same prompt with two outputs in either order, and two records of another
\* user whose model|prompt keys are the same text.
DeltaBatches(day) ==
    LET a == SubmissionOn(day)
        b == [SubmissionOn(day) EXCEPT !.output = <<"B">>]
        c == [a EXCEPT !.model_id = <<"m", "|", "x">>, !.prompt_id = <<"p">>]
        d == [b EXCEPT !.model_id = <<"m">>, !.prompt_id = <<"x", "|", "p">>]
    IN {[userId |-> <<"u1">>, subs |-> <<>>],
        [userId |-> <<"u1">>, subs |-> <<a>>],
        [userId |-> <<"u1">>, subs |-> <<a, b>>],
        [userId |-> <<"u1">>, subs |-> <<b, a>>],
        [userId |-> <<"u2">>, subs |-> <<c, d>>]}

\* An empty bucket on day 2.
DeltaSpecInit ==
    /\ codec = CodecIdle
    /\ DeltaInit
    /\ req = RequestIdle
    /\ calc = CalcIdle
    /\ StoreInit
    /\ IngestInit
    /\ today = 2
    /\ MaintInit

DeltaNext ==
    \/ \E b \in DeltaBatches(today) :
          WriteDelta(NewRecords(nextId, b.userId, b.subs))
    \/ MergeCall
    \/ MergeRead
    \/ MergeList
    \/ MergeDownload
    \/ MergeWrite
    \/ MergeDelete
    \/ MergeCrash
    \/ Midnight

SpecDelta == DeltaSpecInit /\ [][DeltaNext]_vars

\* The DeltaFiles a step deletes.
Deleted(k) == deltas[k].exists /\ ~deltas'[k].exists

Listed(k) == \E i \in 1..Len(mrg.keys) : mrg.keys[i] = k

\* C16: DeltaFiles are deleted only by the merge that has written the
\* ChartDocument holding their records, and exactly the listed ones are; a
\* crash between the write and the delete leaves them in storage, and the
\* next merge lists them again.
C16_DeleteAfterWrite ==
    [][/\ (\E k \in 1..Len(deltas) : Deleted(k)) =>
            /\ mrg.pc = "delete"
            /\ chart.exists /\ chart.body = mrg.doc
            /\ \A k \in 1..Len(deltas) :
                   Deleted(k) <=> (deltas[k].exists /\ Listed(k))
       /\ (mrg.pc = "delete" /\ mrg'.pc = "crashed") =>
            /\ deltas' = deltas
            /\ \A k \in 1..Len(deltas) : Listed(k) => deltas[k].exists
       /\ (mrg.pc = "list" /\ mrg'.pc \in {"download", "done"}) =>
            \A k \in 1..Len(deltas) :
                deltas[k].exists => \E i \in 1..Len(mrg'.keys) : mrg'.keys[i] = k
      ]_vars

\* The run after a crash between write and delete has merged the DeltaFiles
\* of the crashed run again and deleted them, while a DeltaFile written
\* after its listing stays.
C16_Witness ==
    /\ mrg.pc = "done" /\ mrg.runs = 2 /\ mrg.merged > 0
    /\ chart.etag = 2
    /\ chart.body.total_submissions > nextId - 1
    /\ ~deltas[1].exists
    /\ Len(deltas) = 2 /\ deltas[2].exists

\* The records of the DeltaFiles written so far, consumed or not, for
\* (day, model): a deleted file keeps what it held.
WrittenRecords ==
    UNION {{<<k, i>> : i \in 1..Len(deltas[k].records)} : k \in 1..Len(deltas)}

WrittenFor(day, model) ==
    {w \in WrittenRecords :
        /\ deltas[w[1]].day = day
        /\ deltas[w[1]].records[w[2]].model_id = model}

KeyOf(r) == r.model_id \o <<"|">> \o r.prompt_id

\* The fingerprint carried for the key of the i-th record of a file when the
\* record is applied, if there is one: that of the latest earlier record of
\* the file with the key, else the one the document held before the file.
Carried(doc, recs, i) ==
    LET earlier == {j \in 1..(i - 1) : KeyOf(recs[j]) = KeyOf(recs[i])} IN
    IF earlier # {}
    THEN <<recs[CHOOSE j \in earlier : \A l \in earlier : l <= j].output_hash>>
    ELSE IF KeyOf(recs[i]) \in DOMAIN doc.prev_hashes
    THEN <<doc.prev_hashes[KeyOf(recs[i])]>>
    ELSE <<>>

\* The records of the file that count as drift for the model.
DriftingRecords(doc, recs, model) ==
    {i \in 1..Len(recs) :
        /\ recs[i].model_id = model
        /\ Carried(doc, recs, i) # <<>>
        /\ Carried(doc, recs, i)[1] # recs[i].output_hash}

\* C18: the records of a DeltaFile are applied one at a time in file order:
\* drifted_prompts of (delta day, model) grows by the number of the model's
\* records whose fingerprint differs from the one carried for their key, a
\* record of a key without a carried fingerprint adds none, and the carried
\* fingerprint of a key becomes that of each record applied.
C18_RecordDriftRule ==
    [][(mrg.pc = "download" /\ mrg'.pc \in {"download", "write"}
            /\ mrg'.todo # mrg.todo) =>
          LET file == deltas[mrg.todo[1]]
              recs == file.records
          IN /\ \A i \in 1..Len(recs) :
                    StatsOf(mrg'.doc, file.day, recs[i].model_id).drifted_prompts
                      = StatsOf(mrg.doc, file.day, recs[i].model_id).drifted_prompts
                          + Cardinality(DriftingRecords(mrg.doc, recs, recs[i].model_id))
             /\ \A i \in 1..Len(recs) :
                    (\A j \in (i + 1)..Len(recs) : KeyOf(recs[j]) # KeyOf(recs[i]))
                        => mrg'.doc.prev_hashes[KeyOf(recs[i])] = recs[i].output_hash
             /\ \A key \in DOMAIN mrg.doc.prev_hashes :
                    (\A i \in 1..Len(recs) : KeyOf(recs[i]) # key)
                        => mrg'.doc.prev_hashes[key] = mrg.doc.prev_hashes[key]
      ]_vars

\* A merge has applied a file of two records of one key: the first, without
\* a carried fingerprint, added no drift, the second added one; the next
\* day's file of the key drifted against the fingerprint carried over.
C18_Witness ==
    /\ mrg.pc = "write"
    /\ Len(mrg.keys) = 2
    /\ \E d1, d2 \in DOMAIN mrg.doc.data :
          /\ d1 # d2
          /\ \E model \in DOMAIN mrg.doc.data[d1] \cap DOMAIN mrg.doc.data[d2] :
                /\ mrg.doc.data[d1][model] = [submissions |-> 2, drifted_prompts |-> 1]
                /\ mrg.doc.data[d2][model] = [submissions |-> 1, drifted_prompts |-> 1]

\* ------------------------------------------------- rejected submit requests

GoodSubmission ==
    [model_id |-> JsonString(<<"m1">>), prompt_id |-> JsonString(<<"p1">>),
     output |-> JsonString(<<"A">>), score |-> JsonUndefined]

ScoredSubmission == [GoodSubmission EXCEPT !.score = JsonNumber(5)]

\* Bodies that break one rule of SubmissionRequestSchema: a model_id that is
\* a number, a model_id of 257 characters, no prompt_id, a score of 1.1, a
\* score that is a string.
RejectedSubmissions ==
    {[GoodSubmission EXCEPT !.model_id = JsonNumber(10)],
     [GoodSubmission EXCEPT !.model_id = JsonString([i \in 1..(MaxIdLength + 1) |-> "m"])],
     [GoodSubmission EXCEPT !.prompt_id = JsonUndefined],
     [GoodSubmission EXCEPT !.score = JsonNumber(11)],
     [GoodSubmission EXCEPT !.score = JsonString(<<"1">>)]}

SubmitBodies == {GoodSubmission, ScoredSubmission} \cup RejectedSubmissions

BatchOf(results) ==
    [suite_version |-> JsonString(<<"v1">>), suite_hash |-> JsonString(<<"h">>),
     model_id |-> JsonString(<<"m1">>), temperature |-> JsonNumber(0),
     seed |-> JsonUndefined, timestamp |-> JsonString(<<"T">>),
     results |-> results]

\* Batches with a rejected item before, after or without accepted items, and
\* a batch of accepted items whose temperature is a string.
RejectedBatches ==
    {BatchOf(<<bad>>) : bad \in RejectedSubmissions}
    \cup {BatchOf(<<GoodSubmission, [GoodSubmission EXCEPT !.score = JsonNumber(11)]>>),
          BatchOf(<<[GoodSubmission EXCEPT !.model_id = JsonNumber(10)], ScoredSubmission>>),
          [BatchOf(<<GoodSubmission>>) EXCEPT !.temperature = JsonString(<<"0">>)]}

BatchBodies ==
    {BatchOf(<<>>), BatchOf(<<GoodSubmission>>),
     BatchOf(<<GoodSubmission, ScoredSubmission>>)} \cup RejectedBatches

\* Storage on day 2 after a compaction or with rows in the buffer; the
\* requests come one after the other from one identity.
SubmitInit ==
    /\ codec = CodecIdle
    /\ DeltaInit
    /\ req = RequestIdle
    /\ calc = CalcIdle
    /\ buffer \in {HeadersOnly, StoredCsv(<<E3>>)}
    /\ archives = [d \in 1..Len(Dates) |->
           IF d = 1 THEN StoredCsv(<<E1>>) ELSE NoObject]
    /\ chart = uploadFile(NoObject, BuildChart(<<E1>>, 0))
    /\ summaries = [u \in Users |-> NoObject]
    /\ procs = [p \in Procs |-> ProcIdle]
    /\ calls = 0
    /\ nextId = Cardinality(SeedRecords)
    /\ accepted = {}
    /\ counted = [u \in Users |-> 0]
    /\ today = 2
    /\ MaintInit

SubmitNext ==
    \/ \E body \in SubmitBodies : SubmitPost("single", <<"u1">>, body)
    \/ \E body \in BatchBodies : SubmitPost("batch", <<"u1">>, body)
    \/ \E p \in Procs :
          \/ AppendRead(p)
          \/ AppendWrite(p)
          \/ UpdateRead(p)
          \/ UpdateWrite(p)
    \/ SubmitRespond
    \/ RebuildStep("submit")

SpecSubmit == SubmitInit /\ [][SubmitNext]_vars

\* The request just taken has a body that breaks the schema of its route.
RejectedRequest(r) ==
    \/ r.route = "single" /\ r.body \in RejectedSubmissions
    \/ r.route = "batch" /\ r.body \in RejectedBatches

\* C19: a single or batch request whose body fails the schema is answered
\* with 400 in the step that takes it, before any storage call: no
\* appendToCsvBuffer, updateUserSummary or rebuildChartJson is started and
\* the buffer, the summaries, the archives and the chart are unchanged; a
\* batch with one rejected item starts nothing for its accepted items.
C19_RejectedBeforeStorage ==
    [][(req'.served # req.served /\ RejectedRequest(req'))
        => /\ req'.pc = "responded"
           /\ req'.status = 400
           /\ UNCHANGED <<storeVars, procs, calls, nextId, accepted, counted, rebuilds>>]_vars

\* A batch of an accepted and a rejected item was answered with 400 while
\* the buffer holds rows of earlier requests.
C19_Witness ==
    /\ req.pc = "responded"
    /\ req.status = 400
    /\ req.route = "batch"
    /\ Len(req.body.results) = 2
    /\ \E i \in 1..2 : SubmissionRequestSchema(req.body.results[i])
    /\ accepted # {}
    /\ \A r \in accepted : Stored(r)

\* ------------------------------------------------- undecodable stored rows

\* The row of the record as it was written before the score column existed:
\* eleven fields.
LegacyRow(r) ==
    LET row == recordToCsvRow([r EXCEPT !.score = NullScore])
    IN SubSeq(row, 1, Len(row) - 1)

\* A row cut before its last field.
CutLastField(row) ==
    LET commas == {i \in 1..Len(row) : row[i] = COMMA}
        last == CHOOSE i \in commas : \A j \in commas : j <= i
    IN SubSeq(row, 1, last - 1)

\* The text of a stored line: a row of twelve fields, a legacy row of eleven,
\* a row cut to ten fields, a line that opens a quote and ends, a blank line.
LineText(l) ==
    CASE l.kind = "row" -> recordToCsvRow(l.rec)
      [] l.kind = "legacy" -> LegacyRow(l.rec)
      [] l.kind = "short" -> CutLastField(LegacyRow(l.rec))
      [] l.kind = "quote" -> <<DQUOTE, "x">>
      [] OTHER -> <<>>

\* An object with the header line and the lines.
StoredLines(lines) ==
    [exists |-> TRUE,
     body |-> CSV_HEADERS \o <<LF>>
                  \o Join([i \in 1..Len(lines) |-> LineText(lines[i])], LF),
     etag |-> 1]

\* What the lines hold: the record of a row, the record without a score of
\* a legacy row, nothing otherwise.
RECURSIVE DecodableRecords(_)
DecodableRecords(lines) ==
    IF lines = <<>> THEN <<>>
    ELSE (CASE lines[1].kind = "row" -> <<lines[1].rec>>
            [] lines[1].kind = "legacy" -> <<[lines[1].rec EXCEPT !.score = NullScore]>>
            [] OTHER -> <<>>)
         \o DecodableRecords(Tail(lines))

Scored == [E3 EXCEPT !.score = 5]

StoredRows ==
    {[kind |-> "row", rec |-> Scored], [kind |-> "row", rec |-> E4],
     [kind |-> "legacy", rec |-> Scored], [kind |-> "short", rec |-> E4],
     [kind |-> "quote", rec |-> E4], [kind |-> "blank", rec |-> E4]}

ArchivedRows ==
    {<<>>,
     <<[kind |-> "row", rec |-> E1], [kind |-> "short", rec |-> E1],
       [kind |-> "legacy", rec |-> E2]>>}

\* Storage on day 2 whose buffer holds up to MaxRecords lines of any kind in
\* any order, with or without an archive partition of day 1 that has a cut
\* row; codec.rec keeps the lines the objects were made of.
DecodeInit ==
    /\ \E a \in ArchivedRows, b \in UNION {[1..n -> StoredRows] : n \in 0..MaxRecords} :
           /\ codec = [pc |-> "stored", rec |-> [archive |-> a, buffer |-> b],
                       row |-> <<>>, parsed |-> <<>>]
           /\ buffer = StoredLines(b)
           /\ archives = [d \in 1..Len(Dates) |->
                  IF d = 1 /\ a # <<>> THEN StoredLines(a) ELSE NoObject]
    /\ DeltaInit
    /\ req = RequestIdle
    /\ calc = CalcIdle
    /\ chart = NoObject
    /\ summaries = [u \in Users |-> NoObject]
    /\ IngestInit
    /\ today = 2
    /\ MaintInit

\* parseCsvBody on the text of the buffer.
CodecParseBody ==
    /\ codec.pc = "stored"
    /\ codec' = [codec EXCEPT !.pc = "parsed",
                              !.parsed = parseCsvBody(downloadFileWithEtag(buffer).body)]
    /\ UNCHANGED <<storeVars, ingestVars, maintVars, deltaVars, req, calc>>

DecodeNext ==
    \/ CodecParseBody
    \/ RebuildRun("admin")

SpecDecode == DecodeInit /\ [][DecodeNext]_vars

\* C20: decoding an object passes over the lines of fewer than 11 fields and
\* nothing else: the records returned are those of the 12-field rows and of
\* the 11-field legacy rows (score absent), in the order of the lines; and
\* rebuildChartJson completes with the chart of exactly these records of the
\* archive partition and the buffer.
C20_SkipsUndecodableRowsOnly ==
    /\ codec.pc = "parsed" => codec.parsed = DecodableRecords(codec.rec.buffer)
    /\ rebuilds["admin"].pc = "done" =>
           /\ chart.exists
           /\ chart.body = BuildChart(DecodableRecords(codec.rec.archive)
                                          \o DecodableRecords(codec.rec.buffer), 0)

\* The buffer held a row, a cut row and a legacy row in this order; the
\* two records were decoded, the second with no score, and the rebuild over
\* an archive with a cut row has written the chart.
C20_Witness ==
    /\ codec.pc = "parsed"
    /\ Len(codec.rec.buffer) = 3
    /\ codec.rec.buffer[1].kind = "row"
    /\ codec.rec.buffer[2].kind = "short"
    /\ codec.rec.buffer[3].kind = "legacy"
    /\ Len(codec.parsed) = 2
    /\ codec.parsed[2].score = NullScore
    /\ codec.rec.archive # <<>>
    /\ rebuilds["admin"].pc = "done"
    /\ chart.body.total_submissions = 4

\* ------------------------------------------- summaries of older versions

LegacyDates == {DateStr(Dates[1]), DateStr(Dates[2])}

LegacyModels == {<<"m1">>, <<"m2">>}

\* Counts per date and model as an older summary holds them: some dates, on
\* each some models, each with one or two submissions.
LegacyCountTables ==
    LET perDate == UNION {[M -> {1, 2}] : M \in SUBSET LegacyModels \ {{}}}
    IN UNION {[D -> perDate] : D \in SUBSET LegacyDates \ {{}}}

\* The number of submissions in a table of counts.
RECURSIVE TableTotal(_, _)
TableTotal(table, cells) ==
    IF cells = {} THEN 0
    ELSE LET c == CHOOSE c \in cells : TRUE IN
         table[c[1]][c[2]] + TableTotal(table, cells \ {c})

TableCells(table) ==
    {c \in (DOMAIN table) \X LegacyModels : c[2] \in DOMAIN table[c[1]]}

\* A count-only summary (no version field) as the first schema wrote it.
SummaryV1(table) ==
    [date_counts |-> table,
     total_submissions |-> TableTotal(table, TableCells(table))]

\* A Welford-shaped summary of version 2: every count under an accumulator.
SummaryV2(table) ==
    [version |-> 2,
     date_stats |-> [d \in DOMAIN table |->
                        [m \in DOMAIN table[d] |->
                            [n |-> 1, mean |-> 5, m2 |-> 0, count |-> table[d][m]]]],
     model_stats |-> <<>>,
     total_submissions |-> TableTotal(table, TableCells(table)),
     total_scored |-> Cardinality(TableCells(table))]

LegacySummaries ==
    {SummaryV1(t) : t \in LegacyCountTables} \cup {SummaryV2(t) : t \in LegacyCountTables}

\* The first identity has a stored summary of an older version.
MigrateInit ==
    /\ codec = CodecIdle
    /\ DeltaInit
    /\ req = RequestIdle
    /\ calc = CalcIdle
    /\ buffer = NoObject
    /\ \E old \in LegacySummaries :
           summaries = [u \in Users |->
               IF u = <<"u1">> THEN [exists |-> TRUE, body |-> old, etag |-> 1]
               ELSE NoObject]
    /\ archives = [d \in 1..Len(Dates) |-> NoObject]
    /\ chart = NoObject
    /\ IngestInit
    /\ today = 2
    /\ MaintInit

MigrateNext ==
    \E p \in Procs :
        \/ ReadSummaryCall(p, <<"u1">>)
        \/ UpdateCall(p, <<"u1">>, NewRecords(calls, <<"u1">>, <<SubmissionOn(2)>>))
        \/ UpdateRead(p)
        \/ UpdateWrite(p)

SpecMigrate == MigrateInit /\ [][MigrateNext]_vars

\* The count an older summary holds for a date and a model.
OldCount(raw, d, m) ==
    IF "date_counts" \in DOMAIN raw
    THEN IF d \in DOMAIN raw.date_counts /\ m \in DOMAIN raw.date_counts[d]
         THEN raw.date_counts[d][m] ELSE 0
    ELSE IF d \in DOMAIN raw.date_stats /\ m \in DOMAIN raw.date_stats[d]
         THEN raw.date_stats[d][m].count ELSE 0

\* The count a current summary holds for a date and a model.
NewCount(summary, d, m) ==
    IF d \in DOMAIN summary.submissions_by_date
          /\ m \in DOMAIN summary.submissions_by_date[d]
    THEN summary.submissions_by_date[d][m] ELSE 0

\* The records of the date and the model among the records.
RecordCount(records, d, m) ==
    Cardinality({i \in 1..Len(records) :
                    DateStr(records[i]) = d /\ records[i].model_id = m})

AllDates == {DateStr(Dates[i]) : i \in 1..Len(Dates)}

RawPValues ==
    {Whole(0), Frac(1, 100), Frac(2, 100), Frac(25, 1000), Frac(5, 100),
     Frac(3, 10), Frac(5, 10), Whole(1)}

\* Up to MaxRecords p-values in any order, under distinct keys.
PValueLists ==
    UNION {[1..n -> RawPValues] : n \in 0..MaxRecords}

HolmInit ==
    /\ codec = CodecIdle
    /\ DeltaInit
    /\ req = RequestIdle
    /\ \E ps \in PValueLists :
           calc = [CalcIdle EXCEPT !.pValues =
                      [i \in 1..Len(ps) |-> [key |-> <<"m">> \o NatToStr(i), p |-> ps[i]]]]
    /\ StoreInit
    /\ IngestInit
    /\ today = 1
    /\ MaintInit

HolmNext == HolmStep

SpecHolm == HolmInit /\ [][HolmNext]_vars

\* C22: every key has an adjusted p-value that is at least its raw p-value
\* and at most 1, and of two entries the one with the lower or equal raw
\* p-value never has the higher adjusted p-value.
C22_AdjustedBoundsAndOrder ==
    calc.done =>
        LET ps == calc.pValues
            adj(i) == calc.holm[ps[i].key].adjusted
        IN /\ DOMAIN calc.holm = {ps[i].key : i \in 1..Len(ps)}
           /\ \A i \in 1..Len(ps) :
                  /\ ~Less(adj(i), ps[i].p)
                  /\ ~Less(Whole(1), adj(i))
           /\ \A i, j \in 1..Len(ps) :
                  ~Less(ps[j].p, ps[i].p) => ~Less(adj(j), adj(i))

\* Three p-values were corrected and the running maximum raised the adjusted
\* value of the highest one above its own product, below 1.
C22_Witness ==
    /\ calc.done
    /\ Len(calc.pValues) = 3
    /\ \E i \in 1..3 :
           /\ \A j \in 1..3 : ~Less(calc.pValues[i].p, calc.pValues[j].p)
           /\ Less(calc.pValues[i].p, calc.holm[calc.pValues[i].key].adjusted)
           /\ Less(calc.holm[calc.pValues[i].key].adjusted, Whole(1))

\* --------------------------------------------------- Welford accumulators

\* The accumulators of the scores 0.7, 0.8, 0.9 ({n: 3, mean: 0.8, m2: 0.02})
\* and of two scores 0.5 -+ 0.0707... ({n: 2, mean: 0.5, m2: 0.01}).
ScoredThrice == [n |-> 3, mean |-> Frac(8, 10), m2 |-> Frac(2, 100), count |-> 3]

ScoredTwice == [n |-> 2, mean |-> Frac(5, 10), m2 |-> Frac(1, 100), count |-> 2]

\* score: null, 0, 0.5, 1
UpdateScores == {NullScore, 0, 5, 10}

\* Three accumulators: all empty, or the two above and an empty one.
WelfordInit ==
    /\ codec = CodecIdle
    /\ DeltaInit
    /\ req = RequestIdle
    /\ calc \in {[CalcIdle EXCEPT !.stats = <<emptyStats, emptyStats, emptyStats>>],
                 [CalcIdle EXCEPT !.stats = <<ScoredThrice, ScoredTwice, emptyStats>>]}
    /\ StoreInit
    /\ IngestInit
    /\ today = 1
    /\ MaintInit

WelfordNext ==
    \/ \E i \in 1..3, score \in UpdateScores : WelfordUpdateStep(i, score)
    \/ \E i, j \in 1..3 : WelfordMergeStep(i, j)
    \/ PoolStep

SpecWelford == WelfordInit /\ [][WelfordNext]_vars

\* C23: the three accumulators merged as (A B) C, as A (B C) and as B (A C)
\* give the same n, count, mean and m2.
C23_MergeAssociativeCommutative ==
    calc.pooled # <<>> =>
        /\ calc.pooled.left = calc.pooled.right
        /\ calc.pooled.right = calc.pooled.swapped

\* Three accumulators with scored observations and three different means
\* were merged in the three groupings.
C23_Witness ==
    /\ calc.pooled # <<>>
    /\ \A i \in 1..3 : calc.pooled.of[i].n > 0
    /\ \A i, j \in 1..3 : i # j => calc.pooled.of[i].mean # calc.pooled.of[j].mean
    /\ calc.pooled.left.n >= 6

\* C24: every accumulator has count >= n >= 0 and m2 >= 0.
C24_AccumulatorInvariant ==
    \A i \in 1..3 :
        /\ calc.stats[i].count >= calc.stats[i].n
        /\ calc.stats[i].n >= 0
        /\ ~Less(calc.stats[i].m2, Whole(0))

\* The second accumulator took an observation without a score and was
\* merged into the first, which then holds 5 scored observations of 6 and
\* a positive m2.
C24_Witness ==
    /\ calc.stats[2].count = 3
    /\ calc.stats[2].n = 2
    /\ calc.stats[1].count = 6
    /\ calc.stats[1].n = 5
    /\ Less(Whole(0), calc.stats[1].m2)

\* C25: pooling two accumulators that both have scored observations gives
\* the sum of their n and the n-weighted average of their means, which lies
\* strictly between the two means when they differ.
C25_PooledMeanBetween ==
    (/\ calc.pooled # <<>>
     /\ calc.pooled.of[1].n > 0
     /\ calc.pooled.of[2].n > 0)
    => LET a == calc.pooled.of[1]
           b == calc.pooled.of[2]
           pair == calc.pooled.pair
       IN /\ pair.n = a.n + b.n
          /\ Times(Whole(pair.n), pair.mean)
                 = Plus(Times(Whole(a.n), a.mean), Times(Whole(b.n), b.mean))
          /\ a.mean # b.mean =>
                 /\ Less(MathMin(a.mean, b.mean), pair.mean)
                 /\ Less(pair.mean, MathMax(a.mean, b.mean))

\* {n: 3, mean: 0.8} and {n: 2, mean: 0.5} were pooled: n = 5 and a mean
\* between 0.5 and 0.8.
C25_Witness ==
    /\ calc.pooled # <<>>
    /\ calc.pooled.of[1] = ScoredThrice
    /\ calc.pooled.of[2] = ScoredTwice
    /\ calc.pooled.pair.n = 5
    /\ Less(Frac(5, 10), calc.pooled.pair.mean)
    /\ Less(calc.pooled.pair.mean, Frac(8, 10))

\* ------------------------------------------------- the comparison query

\* Accumulators of one score 0.5, of two scores 0.5, and of one observation
\* without a score.
OneScore == welfordUpdate(emptyStats, 5)

SameTwice == welfordUpdate(OneScore, 5)

ComparedModels == {<<"m1">>, <<"m2">>}

\* The Welford-shaped summary of an identity with the all-time accumulators.
StatsSummary(modelStats) ==
    [version |-> 2,
     date_stats |-> (DateStr(Dates[1]) :> modelStats),
     model_stats |-> modelStats,
     total_submissions |-> 0,
     total_scored |-> 0]

\* The stored summaries: none, a count-only one, and Welford-shaped ones
\* with accumulators of 1, 2 or 3 scores for some of the models.
ComparedSummaries ==
    {NoObject,
     [exists |-> TRUE, etag |-> 1,
      body |-> SummaryV1(DateStr(Dates[1]) :> (<<"m1">> :> 2))]}
    \cup {[exists |-> TRUE, etag |-> 1, body |-> StatsSummary(ms)] :
             ms \in UNION {[M -> {OneScore, SameTwice, ScoredThrice}] :
                             M \in SUBSET ComparedModels}}

\* The stored charts: none, and charts with accumulators of 1 or 2 scores
\* for some models on some of two dates.
ComparedCharts ==
    LET perDate == UNION {[M -> {OneScore, ScoredTwice}] :
                             M \in SUBSET ComparedModels \ {{}}}
    IN {NoObject}
       \cup {[exists |-> TRUE, etag |-> 1,
              body |-> [version |-> 2, data |-> data, models |-> ComparedModels,
                        total_submissions |-> 0, total_scored |-> 0]] :
                data \in UNION {[D -> perDate] : D \in SUBSET LegacyDates}}

ComparisonInit ==
    /\ codec = CodecIdle
    /\ DeltaInit
    /\ req = RequestIdle
    /\ calc = CalcIdle
    /\ buffer = NoObject
    /\ \E own \in ComparedSummaries :
           summaries = [u \in Users |-> IF u = <<"u1">> THEN own ELSE NoObject]
    /\ archives = [d \in 1..Len(Dates) |-> NoObject]
    /\ chart \in ComparedCharts
    /\ IngestInit
    /\ today = 2
    /\ MaintInit

\* The p-value of a test that is made: 0.01 or 0.3 for each model.
ComparisonNext ==
    \E pOf \in [ComparedModels -> {Frac(1, 100), Frac(3, 10)}] :
        ComparisonGet(<<"u1">>, pOf)

SpecComparison == ComparisonInit /\ [][ComparisonNext]_vars

\* The models the stored summary of the identity has accumulators for.
OwnModels ==
    LET own == summaries[<<"u1">>] IN
    IF ~own.exists THEN {}
    ELSE IF "model_stats" \in DOMAIN own.body THEN DOMAIN own.body.model_stats
    ELSE UNION {DOMAIN own.body.date_counts[d] : d \in DOMAIN own.body.date_counts}

\* The scored observations the identity has for the model.
OwnScored(m) ==
    LET own == summaries[<<"u1">>] IN
    IF "model_stats" \in DOMAIN own.body THEN own.body.model_stats[m].n ELSE 0

ChartModels ==
    IF ~chart.exists THEN {}
    ELSE UNION {DOMAIN chart.body.data[d] : d \in DOMAIN chart.body.data}

\* The scored observations the chart has for the model over all dates.
RECURSIVE ScoredOn(_, _)
ScoredOn(dates, m) ==
    IF dates = {} THEN 0
    ELSE LET d == CHOOSE d \in dates : TRUE IN
         (IF m \in DOMAIN chart.body.data[d] THEN chart.body.data[d][m].n ELSE 0)
             + ScoredOn(dates \ {d}, m)

\* The models for which Welch's t-test is computable.
Testable ==
    {m \in OwnModels \cap ChartModels :
        OwnScored(m) >= 2 /\ ScoredOn(DOMAIN chart.body.data, m) >= 2}

\* C26: the query returns one row for each model that both the summary of
\* the identity and the chart have; the p-values handed to holmBonferroni
\* are those of exactly the models with n >= 2 on both sides; a row of
\* another model has null p_value and p_adjusted and significant = false,
\* and a row of the family has both p-values.
C26_ComparisonRows ==
    calc.done =>
        LET rows == calc.comparisons
            family == calc.pValues
        IN /\ {rows[i].model : i \in 1..Len(rows)} = OwnModels \cap ChartModels
           /\ Len(rows) = Cardinality(OwnModels \cap ChartModels)
           /\ {family[i].key : i \in 1..Len(family)} = Testable
           /\ Len(family) = Cardinality(Testable)
           /\ \A i \in 1..Len(rows) :
                  IF rows[i].model \in Testable
                  THEN /\ rows[i].p_value # NullNumber
                       /\ rows[i].p_adjusted # NullNumber
                       /\ ~Less(rows[i].p_adjusted, rows[i].p_value)
                  ELSE /\ rows[i].p_value = NullNumber
                       /\ rows[i].p_adjusted = NullNumber
                       /\ ~rows[i].significant

\* Two rows were returned, one with a test and a significant adjusted
\* p-value and one without a test.
C26_Witness ==
    /\ calc.done
    /\ Len(calc.comparisons) = 2
    /\ Len(calc.pValues) = 1
    /\ \E i \in 1..2 : calc.comparisons[i].significant
    /\ \E i \in 1..2 : calc.comparisons[i].p_value = NullNumber

\* ------------------------------------------- delta merge and full rebuild

\* The calendar day of a DeltaFile's day string.
DayOf(dayStr) == CHOOSE d \in 1..Len(Dates) : DateStr(Dates[d]) = dayStr

\* The record of the log a DeltaRecord of a file was taken from, as far as
\* rebuildChartJson reads it.
LoggedRecord(file, r) ==
    [year |-> Dates[DayOf(file.day)].year,
     month |-> Dates[DayOf(file.day)].month,
     day |-> Dates[DayOf(file.day)].day,
     user_id |-> r.user_id, model_id |-> r.model_id,
     prompt_id |-> r.prompt_id, output_hash |-> r.output_hash]

\* The log of the records of the DeltaFiles files[from..to], in the order
\* they were written.
RECURSIVE LoggedRecords(_, _, _)
LoggedRecords(files, from, to) ==
    IF from > to THEN <<>>
    ELSE LoggedRecords(files, from, to - 1)
            \o SubSeq([i \in 1..Len(files[to].records) |->
                          LoggedRecord(files[to], files[to].records[i])],
                      1, Len(files[to].records))

\* Every DeltaFile written has been merged once and deleted.
MergedOnce ==
    /\ mrg.pc = "done"
    /\ deltas # <<>>
    /\ \A k \in 1..Len(deltas) : ~deltas[k].exists
    /\ chart.exists
    /\ chart.body.total_submissions = Cardinality(WrittenRecords)

\* C27: the ChartDocument built by merging the DeltaFiles of a log one after
\* another from an empty document has the same drifted_prompts for every
\* (date, model) as the document a full rebuild builds over the same records.
C27_MergeAgreesWithRebuild ==
    MergedOnce =>
        LET rebuilt == BuildChart(LoggedRecords(deltas, 1, Len(deltas)), 0) IN
        /\ DOMAIN chart.body.data = DOMAIN rebuilt.data
        /\ \A day \in DOMAIN rebuilt.data :
              /\ DOMAIN chart.body.data[day] = DOMAIN rebuilt.data[day]
              /\ \A model \in DOMAIN rebuilt.data[day] :
                    chart.body.data[day][model].drifted_prompts
                        = rebuilt.data[day][model].drifted_prompts

\* ------------------------------------------------ the rebuild's drift rule

\* The dates on which the log has a record of the pair.
DatesObserved(model, prompt) ==
    {DateStr(LogRecords[i]) : i \in Observations(model, prompt)}

\* The fingerprint of the last record of the date for the pair.
LastOn(model, prompt, date) ==
    LET onDate == {i \in Observations(model, prompt) : DateStr(LogRecords[i]) = date}
    IN LogRecords[CHOOSE i \in onDate : \A j \in onDate : j <= i].output_hash

\* The fingerprint carried to the date for the pair: that of the last record
\* of the most recent earlier date on which the pair was observed, if any.
CarriedTo(model, prompt, date) ==
    LET earlier == {d \in DatesObserved(model, prompt) : StrBefore(d, date)} IN
    IF earlier = {} THEN <<>>
    ELSE <<LastOn(model, prompt,
                  CHOOSE d \in earlier : \A e \in earlier \ {d} : StrBefore(e, d))>>

\* C28: rebuildChartJson counts a (model, prompt) pair as drifted on a date
\* when the fingerprint of the pair's last record of the date differs from
\* the one carried from the most recent earlier date on which the pair was
\* observed, whatever the number of days between; fingerprints seen earlier
\* within the date do not count.
C28_LastOfDateAgainstCarried ==
    rebuilds["admin"].pc = "done" =>
        LET doc == rebuilds["admin"].doc IN
        \A date \in DOMAIN doc.data :
            \A model \in DOMAIN doc.data[date] :
                doc.data[date][model].drifted_prompts
                    = Cardinality(
                        {prompt \in {LogRecords[i].prompt_id : i \in 1..Len(LogRecords)} :
                            /\ date \in DatesObserved(model, prompt)
                            /\ CarriedTo(model, prompt, date) # <<>>
                            /\ CarriedTo(model, prompt, date)[1]
                                   # LastOn(model, prompt, date)})

\* ---------------------------------------------- the order of compaction

\* A run that goes on to the buffer reset after a rejected archive put.
ArchiveRejectedGoesOn(c) == [c EXCEPT !.pc = "reset"]

\* await uploadFile(bucket, archiveKey, ...) rejects: compactBuffer has no
\* catch, the run ends with the error.
ArchiveRejected(c) == [c EXCEPT !.pc = "failed", !.failures = @ + 1]

\* The put of the archive partition fails.
CompactUploadFail ==
    /\ cmp.pc = "upload"
    /\ cmp' = ArchiveRejected(cmp)
    /\ UNCHANGED <<codec, req, calc, deltaVars, storeVars, ingestVars, today, ers, rebuilds>>

OrderNext ==
    \/ CronNext
    \/ CompactUploadFail

SpecOrder == CronInit /\ [][OrderNext]_vars

\* The archive partition of the run holds what the run has built for it.
ArchiveWritten ==
    /\ archives[cmp.archiveKey].exists
    /\ archives[cmp.archiveKey].body = cmp.archiveCsv

\* C29: compactBuffer writes the archive partition, then resets the buffer,
\* then rebuilds the ChartDocument: the buffer is reset only after the
\* archive write of the same run, the ChartDocument is written only after
\* the reset, and a failed archive write ends the run with the buffer rows
\* in place.
C29_ArchiveResetRebuild ==
    [][/\ archives' # archives =>
            /\ cmp.pc = "upload" /\ cmp'.pc = "reset"
            /\ buffer' = buffer /\ chart' = chart
            /\ parseCsvBody(buffer.body) = cmp.records
       /\ buffer' # buffer =>
            /\ cmp.pc = "reset" /\ cmp'.pc = "rebuild"
            /\ ArchiveWritten
            /\ buffer'.body = CSV_HEADERS \o <<LF>>
            /\ archives' = archives /\ chart' = chart
       /\ chart' # chart =>
            /\ cmp.pc = "rebuild" /\ rebuilds["compact"].pc = "write"
            /\ ArchiveWritten
            /\ buffer.body = CSV_HEADERS \o <<LF>>
            /\ archives' = archives /\ buffer' = buffer
       /\ (cmp.pc = "upload" /\ cmp'.pc = "failed") =>
            /\ buffer' = buffer /\ archives' = archives /\ chart' = chart
            /\ ~ArchiveWritten
            /\ parseCsvBody(buffer.body) = cmp.records /\ cmp.records # <<>>
       /\ (cmp.pc # "done" /\ cmp'.pc = "done" /\ cmp'.chartRebuilt) =>
            /\ ArchiveWritten
            /\ buffer.body = CSV_HEADERS \o <<LF>>
            /\ chart.exists /\ chart.body = rebuilds["compact"].doc
      ]_vars

\* The first run of the day ended at the rejected archive put and left the
\* rows in the buffer; the second archived them once, reset the buffer and
\* rebuilt the ChartDocument.
C29_Witness ==
    /\ today = 2
    /\ cmp.pc = "done" /\ cmp.runs = 2 /\ cmp.failures = 1 /\ cmp.chartRebuilt
    /\ Len(cmp.records) = 2
    /\ ArchiveWritten
    /\ Len(parseCsvBody(archives[cmp.archiveKey].body)) = Len(cmp.records)
    /\ buffer.body = CSV_HEADERS \o <<LF>>
    /\ chart.body.total_submissions >= Len(cmp.records)

\* ------------------------------------------------- the frame of an append

\* The batches of the two callers: the first sends none or one record, the
\* second two records, an output with a line break and one that ends with a
\* space.
FrameBatches(p) ==
    LET a == SubmissionOn(1)
        b == [SubmissionOn(1) EXCEPT !.output = <<"B", SPACE>>]
        c == [SubmissionOn(1) EXCEPT !.output = <<"a", LF, "b">>]
    IN IF p = 1 THEN {<<>>, <<a>>} ELSE {<<c, b>>}

\* No buffer, the header line alone, or the rows of an earlier batch.
FrameInit ==
    /\ codec = CodecIdle
    /\ DeltaInit
    /\ req = RequestIdle
    /\ calc = CalcIdle
    /\ \E stored \in BOOLEAN, seed \in FrameBatches(1) \cup FrameBatches(2) :
          LET records == NewRecords(0, <<"u2">>, seed) IN
          /\ stored \/ seed = <<>>
          /\ buffer = IF stored THEN StoredCsv(records) ELSE NoObject
          /\ accepted = RecordsOf(records)
          /\ nextId = Len(records)
    /\ summaries = [u \in Users |-> NoObject]
    /\ archives = [d \in 1..Len(Dates) |-> NoObject]
    /\ chart = NoObject
    /\ procs = [p \in Procs |-> ProcIdle]
    /\ calls = 0
    /\ counted = [u \in Users |-> 0]
    /\ today = 1
    /\ MaintInit

FrameNext ==
    \E p \in Procs :
        \/ \E b \in FrameBatches(p) : AppendCall(p, NewRecords(nextId, <<"u1">>, b))
        \/ AppendRead(p)
        \/ AppendWrite(p)

SpecFrame == FrameInit /\ [][FrameNext]_vars

\* The rows of a batch in batch order, a line break between two rows.
RECURSIVE BatchBlock(_)
BatchBlock(records) ==
    IF Len(records) = 1 THEN recordToCsvRow(records[1])
    ELSE BatchBlock(SubSeq(records, 1, Len(records) - 1))
            \o <<LF>> \o recordToCsvRow(records[Len(records)])

\* The lines of a buffer text that hold something.
RowLines(text) == SelectSeq(Split(text, LF), LAMBDA line : Trim(line) # <<>>)

\* text is old, every line of it as it was and in the same order, followed
\* by the rows of the batch as one block.
Extends(text, old, records) ==
    LET kept == RowLines(old)
        lines == RowLines(text)
        block == BatchBlock(records)
    IN /\ Len(text) > Len(block)
       /\ SubSeq(text, Len(text) - Len(block) + 1, Len(text)) = block
       /\ text[Len(text) - Len(block)] = LF
       /\ SubSeq(text, 1, Len(text) - Len(block) - 1) = TrimEnd(old)
       /\ Len(lines) = Len(kept) + Len(RowLines(block))
       /\ SubSeq(lines, 1, Len(kept)) = kept
       /\ parseCsvBody(text)
             = parseCsvBody(old) \o ParseLines(Split(block, LF))

\* C30: a successful appendToCsvBuffer writes the buffer whole: the text it
\* writes is the text it read, every row unchanged and in order, with the
\* rows of its batch after them as one block in batch order (after the
\* header line when there was no buffer); the buffer is changed by nothing
\* but such a write.
C30_AppendFrame ==
    [][/\ \A p \in Procs :
            (procs[p].pc = "read" /\ procs'[p].pc = "write") =>
                IF buffer.exists
                THEN Extends(procs'[p].csv, buffer.body, procs[p].records)
                ELSE procs'[p].csv
                        = CSV_HEADERS \o <<LF>> \o BatchBlock(procs[p].records)
       /\ \A p \in Procs :
            (procs[p].pc = "write" /\ procs'[p].pc = "returned") =>
                /\ buffer'.body = procs[p].csv
                /\ procs[p].etag # NoEtag =>
                       Extends(buffer'.body, buffer.body, procs[p].records)
       /\ buffer' # buffer =>
            \E p \in Procs :
                /\ procs[p].pc = "write" /\ procs'[p].pc = "returned"
                /\ buffer'.body = procs[p].csv
      ]_vars

\* A call that had to read again has appended its two rows, one of them a
\* row over two lines, after the rows the buffer held by then: those it had
\* first read and the row another call has added since.
C30_Witness ==
    \E p \in Procs :
        /\ procs[p].pc = "returned" /\ procs[p].attempt = 1
        /\ Cardinality(accepted) = 5
        /\ Len(parseCsvBody(buffer.body)) = 3
        /\ Len(RowLines(buffer.body)) = 8

\* ----------------------------------------------------------- storage errors

\* The status of a storage error that is not an etag conflict.
ErrorStatuses == {500, 503}

\* What the catch block of the loop makes of an error: the next turn of the
\* loop, or throw err.
Caught(proc, status) ==
    IF ShouldRetry(status, proc.attempt)
    THEN [proc EXCEPT !.pc = "read", !.attempt = @ + 1, !.etag = NoEtag,
                      !.csv = <<>>, !.doc = EmptySummary]
    ELSE [ProcIdle EXCEPT !.op = proc.op, !.pc = "thrown",
                          !.attempt = proc.attempt, !.status = status]

\* The storage rejects a request of appendToCsvBuffer or updateUserSummary
\* with an error that is not a conflict: the download is outside the try
\* block and its error leaves the function at once, the error of a put goes
\* through the catch block.
CallError(p, status) ==
    /\ procs[p].op \in {"append", "update"}
    /\ procs[p].pc \in {"read", "write"}
    /\ procs' = [procs EXCEPT ![p] =
           IF procs[p].pc = "read"
           THEN [ProcIdle EXCEPT !.op = procs[p].op, !.pc = "thrown",
                                 !.attempt = procs[p].attempt, !.status = status]
           ELSE Caught(procs[p], status)]
    /\ UNCHANGED <<codec, req, calc, deltaVars, storeVars, maintVars, calls, nextId,
                   accepted, counted>>

\* ------------------------------------------------- one ingest, two writes

PartialNext ==
    \/ SubmitNext
    \/ \E p \in Procs, status \in ErrorStatuses : CallError(p, status)

SpecPartial == SubmitInit /\ [][PartialNext]_vars

\* The step is the put of a call that returns.
Returns(p) == procs[p].pc = "write" /\ procs'[p].pc = "returned"

\* C31: the buffer append and the summary update of an ingest are separate
\* writes: each object is changed only by the put of its own call, which
\* stores what the call has built; a call that ends in an error and the
\* failure response of the request leave both objects as they are, so the
\* completed write of the other call stays.
C31_IndependentWrites ==
    [][/\ buffer' # buffer =>
            /\ Returns(1) /\ procs[1].op = "append"
            /\ buffer'.exists /\ buffer'.body = procs[1].csv
            /\ summaries' = summaries
       /\ summaries' # summaries =>
            /\ Returns(2) /\ procs[2].op = "update"
            /\ summaries'[procs[2].userId].exists
            /\ summaries'[procs[2].userId].body = procs[2].doc
            /\ buffer' = buffer
       /\ \A p \in Procs :
            Returns(p) => IF procs[p].op = "append" THEN buffer'.body = procs[p].csv
                          ELSE summaries'[procs[p].userId].body = procs[p].doc
       /\ (\E p \in Procs : procs[p].pc # "thrown" /\ procs'[p].pc = "thrown") =>
            buffer' = buffer /\ summaries' = summaries
       /\ (req.pc = "storing" /\ req'.pc = "responded") =>
            /\ buffer' = buffer /\ summaries' = summaries
            /\ req'.status = 500 <=> \E p \in Procs : procs[p].pc = "thrown"
      ]_vars

\* The request has been answered with an error: its record is in the buffer,
\* the summary update has failed and the identity has no summary.
C31_Witness ==
    /\ req.pc = "responded" /\ req.status = 500
    /\ procs[1].pc = "returned"
    /\ procs[2].pc = "thrown" /\ procs[2].status \in ErrorStatuses
    /\ ~summaries[<<"u1">>].exists
    /\ \E r \in accepted : r.user_id = <<"u1">> /\ Stored(r)

\* ------------------------------------------------------- a call that retried

\* How many times the text holds the row.
RowCount(text, row) ==
    Cardinality({i \in 1..(Len(text) - Len(row) + 1) :
                    SubSeq(text, i, i + Len(row) - 1) = row})

\* The put of a call that had a conflict before succeeds.
RetrySucceeds(p) ==
    /\ procs[p].pc = "write" /\ procs'[p].pc = "returned"
    /\ procs[p].attempt >= 1

\* C32: a retry reads the object and its etag again: when a call succeeds on
\* a second or third attempt, the buffer it writes is the buffer stored at
\* that moment with each row of the batch added once, and the summary it
\* writes counts each record of the batch once on top of the stored total.
C32_RetryCountsOnce ==
    [][\A p \in Procs :
          RetrySucceeds(p) =>
              IF procs[p].op = "append"
              THEN /\ procs[p].etag = buffer.etag
                   /\ Extends(buffer'.body, buffer.body, procs[p].records)
                   /\ \A i \in 1..Len(procs[p].records) :
                          /\ RowCount(buffer.body, recordToCsvRow(procs[p].records[i])) = 0
                          /\ RowCount(buffer'.body, recordToCsvRow(procs[p].records[i])) = 1
              ELSE /\ procs[p].etag = summaries[procs[p].userId].etag
                   /\ summaries'[procs[p].userId].body.total_submissions
                          = StoredTotal(procs[p].userId) + Len(procs[p].records)
      ]_vars

\* An updateUserSummary call has succeeded on its second attempt, after the
\* call it conflicted with: the three records passed for the identity since
\* its first summary are in the stored total.
C32_Witness ==
    \E p \in Procs :
        /\ procs[p].op = "update" /\ procs[p].pc = "returned"
        /\ procs[p].attempt = 1
        /\ \E u \in Users : counted[u] = 3 /\ StoredTotal(u) = 3

\* ------------------------------------------- concurrent appends that retry

\* As many callers as a call has attempts.
Writers == 1..MAX_RETRIES

\* The buffer exists and nothing but appendToCsvBuffer calls writes it.
WritersInit ==
    /\ codec = CodecIdle
    /\ DeltaInit
    /\ req = RequestIdle
    /\ calc = CalcIdle
    /\ buffer = HeadersOnly
    /\ summaries = [u \in Users |-> NoObject]
    /\ archives = [d \in 1..Len(Dates) |-> NoObject]
    /\ chart = NoObject
    /\ procs = [p \in Writers |-> ProcIdle]
    /\ calls = 0
    /\ nextId = 0
    /\ accepted = {}
    /\ counted = [u \in Users |-> 0]
    /\ today = 1
    /\ MaintInit

\* One more call than a call has attempts.
WritersCalls == MAX_RETRIES + 1

\* Every writer calls once; the first calls again when it has returned.
WritersNext ==
    \E p \in Writers :
        \/ /\ calls < WritersCalls
           /\ procs[p].pc = "idle" \/ p = 1
           /\ AppendCall(p, NewRecords(nextId, <<"u1">>, <<SubmissionOn(1)>>))
        \/ AppendRead(p)
        \/ AppendWrite(p)

\* The storage answers every download and every put of a call.
WritersFair ==
    \A p \in Writers : WF_vars(AppendRead(p)) /\ WF_vars(AppendWrite(p))

SpecWriters == WritersInit /\ [][WritersNext]_vars /\ WritersFair

\* No call is under way.
Quiet == \A p \in Writers : procs[p].pc \in {"idle", "returned", "thrown"}

AppendedOutputs == {<<"A">>, <<"a", COMMA, "b">>, <<DQUOTE, "a">>, <<"a", LF, "b">>}

\* Batches of one record and of two.
OutputBatches ==
    {<<[SubmissionOn(1) EXCEPT !.output = o]>> : o \in AppendedOutputs}
    \cup {<<[SubmissionOn(1) EXCEPT !.output = o], SubmissionOn(1)>> :
             o \in AppendedOutputs}

\* One caller, no buffer yet.
AppendsInit ==
    /\ codec = CodecIdle
    /\ DeltaInit
    /\ req = RequestIdle
    /\ calc = CalcIdle
    /\ buffer = NoObject
    /\ summaries = [u \in Users |-> NoObject]
    /\ archives = [d \in 1..Len(Dates) |-> NoObject]
    /\ chart = NoObject
    /\ procs = [p \in {1} |-> ProcIdle]
    /\ calls = 0
    /\ nextId = 0
    /\ accepted = {}
    /\ counted = [u \in Users |-> 0]
    /\ today = 1
    /\ MaintInit

AppendsNext ==
    \/ \E b \in OutputBatches : AppendCall(1, NewRecords(nextId, <<"u1">>, b))
    \/ AppendRead(1)
    \/ AppendWrite(1)

SpecAppends == AppendsInit /\ [][AppendsNext]_vars

\* The records appended so far, in append order: the calls follow one
\* another and the ids are given in call order.
AppendedLog ==
    [n \in 1..Cardinality(accepted) |->
        CHOOSE r \in accepted : r.id = <<RecordIds[n]>>]

\* C34: after any sequence of successful appends to a buffer that did not
\* exist, parseCsvBody of the buffer gives the appended records, one for
\* each in append order and no other, whatever the outputs hold.
C34_DecodesWhatWasAppended ==
    (procs[1].pc = "returned" /\ Cardinality(accepted) = nextId) =>
        /\ buffer.exists
        /\ parseCsvBody(buffer.body) = AppendedLog

\* --------------------------------------------------- drift state of a pair

\* The records of the log that observe the pair.
PairLog(model, prompt) ==
    SelectSeq(LogRecords, LAMBDA r : r.model_id = model /\ r.prompt_id = prompt)

\* The pair drifts on the date in a rebuild over its own records alone.
DriftsAlone(model, prompt, date) ==
    LET alone == BuildChart(PairLog(model, prompt), 0) IN
    /\ date \in DOMAIN alone.data
    /\ alone.data[date][model].drifted_prompts = 1

\* C35: drift state is kept per (model, prompt) pair: in the ChartDocument
\* of a rebuild, drifted_prompts of a (date, model) entry counts the prompts
\* whose pair drifts on the date in a rebuild over the pair's records alone;
\* the records of other pairs change nothing, also when an identifier holds
\* the character '|'.
C35_PairsDoNotInterfere ==
    rebuilds["admin"].pc = "done" =>
        LET doc == rebuilds["admin"].doc IN
        \A date \in DOMAIN doc.data :
            \A model \in DOMAIN doc.data[date] :
                doc.data[date][model].drifted_prompts
                    = Cardinality(
                        {prompt \in {LogRecords[i].prompt_id : i \in 1..Len(LogRecords)} :
                            DriftsAlone(model, prompt, date)})

\* -------------------------------------------- the rows an erase leaves alone

\* A record of u2 whose output has two lines, the second one with the commas
\* of a row and the text u1 where a row has its user_id.
E6 ==
    NewRecord(6, <<"u2">>,
        [model_id |-> <<"m1">>, prompt_id |-> <<"p1">>,
         output |-> <<"a", LF, "x", COMMA, "x", COMMA, "u1", COMMA, "x", COMMA, "x",
                      COMMA, "x", COMMA, "x", COMMA, "x", COMMA, "1", COMMA, "1",
                      COMMA, "1">>,
         date |-> 2])

RowRecords == {E3, E4, E5, E6}

\* The buffers an erase finds: up to two rows, of one identity or of both.
RowSeeds ==
    {<<>>, <<E3>>, <<E4>>, <<E5>>, <<E6>>, <<E3, E4>>, <<E4, E3>>, <<E3, E5>>,
     <<E5, E3>>, <<E4, E6>>, <<E6, E4>>, <<E3, E6>>, <<E6, E3>>}

RowsInit ==
    /\ codec = CodecIdle
    /\ DeltaInit
    /\ req = RequestIdle
    /\ calc = CalcIdle
    /\ \E archived \in {<<>>, <<E2>>}, buffered \in RowSeeds, present \in BOOLEAN :
           /\ (~present => buffered = <<>>)
           /\ archives = [d \in 1..Len(Dates) |->
                  IF d = 1 /\ archived # <<>> THEN StoredCsv(archived) ELSE NoObject]
           /\ buffer = IF present THEN StoredCsv(buffered) ELSE NoObject
           /\ summaries = [u \in Users |-> SummaryOf(u, archived \o buffered)]
           /\ accepted = RecordsOf(archived \o buffered)
           /\ chart = uploadFile(NoObject,
                  BuildChart(archived \o buffered,
                      Cardinality({u \in Users :
                          SummaryOf(u, archived \o buffered).exists})))
    /\ procs = [p \in Procs |-> ProcIdle]
    /\ calls = 0
    /\ nextId = 6
    /\ counted = [u \in Users |-> 0]
    /\ today = 2
    /\ MaintInit

SpecRows == RowsInit /\ [][EraseNext]_vars

\* The place of the text where the row starts, 0 when the text has no such row.
RowAt(text, row) ==
    IF ContainsRow(text, row)
    THEN CHOOSE i \in 1..(Len(text) - Len(row) + 1) :
             /\ SubSeq(text, i, i + Len(row) - 1) = row
             /\ \A j \in 1..(i - 1) : SubSeq(text, j, j + Len(row) - 1) # row
    ELSE 0

\* The records of other identities whose row the text holds.
RowsOfOthers(text, u) ==
    {r \in RowRecords : r.user_id # u /\ ContainsRow(text, recordToCsvRow(r))}

\* C36: deleteUserFromBuffer(u) only removes rows of u: every row of another
\* identity in the buffer it read is, unchanged and in the same relative
\* order, in the buffer it writes, and it writes nothing when the buffer it
\* read has no row of u.
C36_OnlyRowsOfUser ==
    [][/\ (ers.pc = "read" /\ ers'.pc = "write") =>
            \E r \in RowRecords :
                r.user_id = ers.userId /\ ContainsRow(ers'.csv, recordToCsvRow(r))
       /\ (ers.pc = "write" /\ buffer' # buffer) =>
            /\ \A r \in RowsOfOthers(ers.csv, ers.userId) :
                   ContainsRow(buffer'.body, recordToCsvRow(r))
            /\ \A r1, r2 \in RowsOfOthers(ers.csv, ers.userId) :
                   RowAt(ers.csv, recordToCsvRow(r1)) < RowAt(ers.csv, recordToCsvRow(r2))
                       => RowAt(buffer'.body, recordToCsvRow(r1))
                              < RowAt(buffer'.body, recordToCsvRow(r2))]_vars

\* The erase of an identity has rewritten a buffer that held a row of another.
C36_Witness ==
    /\ ers.pc = "deleteSummary"
    /\ ers.removed > 0
    /\ RowsOfOthers(ers.csv, ers.userId) # {}

\* ------------------------------------------ an erase against a concurrent append

\* The storage when the erase request arrives: one record archived, one or
\* two in the buffer.
ConflictInit ==
    /\ codec = CodecIdle
    /\ DeltaInit
    /\ req = RequestIdle
    /\ calc = CalcIdle
    /\ \E archived \in {<<E1>>, <<E2>>}, buffered \in {<<E3>>, <<E4>>, <<E3, E4>>, <<E4, E3>>} :
           /\ archives = [d \in 1..Len(Dates) |->
                  IF d = 1 THEN StoredCsv(archived) ELSE NoObject]
           /\ buffer = StoredCsv(buffered)
           /\ summaries = [u \in Users |-> SummaryOf(u, archived \o buffered)]
           /\ accepted = RecordsOf(archived \o buffered)
           /\ chart = uploadFile(NoObject,
                  BuildChart(archived \o buffered,
                      Cardinality({u \in Users :
                          SummaryOf(u, archived \o buffered).exists})))
    /\ procs = [p \in Procs |-> ProcIdle]
    /\ calls = 0
    /\ nextId = Cardinality(SeedRecords)
    /\ counted = [u \in Users |-> 0]
    /\ today = 2
    /\ MaintInit

\* The appends that run beside the erase.
ConflictCalls == 2

\* The erase request and the buffer appends of a submit request of another
\* identity, interleaved.
ConflictNext ==
    \/ EraseNext
    \/ /\ calls < ConflictCalls
       /\ AppendCall(1, NewRecords(nextId, <<"u2">>, <<SubmissionOn(2)>>))
    \/ AppendRead(1)
    \/ AppendWrite(1)

SpecConflict == ConflictInit /\ [][ConflictNext]_vars

\* The buffer is not the version the eraser has read.
ChangedSinceRead == ~buffer.exists \/ buffer.etag # ers.etag

\* C37: the eraser's rewrite of the buffer is one conditional put without
\* retry: when the buffer has changed since the eraser's read, the put fails
\* with a conflict and leaves the buffer as the other writer stored it, and
\* the request ends there, the summary of the identity not deleted and no
\* rebuild started.
C37_EraseConflictEnds ==
    [][/\ (ers.pc = "write" /\ ers' # ers /\ ChangedSinceRead) =>
            /\ ers'.pc = "failed"
            /\ ers'.status = PreconditionFailed
            /\ buffer' = buffer
       /\ ers.pc \in {"write", "failed"} =>
            /\ summaries' = summaries
            /\ rebuilds["erase"] = RebuildIdle
            /\ rebuilds'["erase"] = RebuildIdle
       /\ ers.pc = "failed" => ers' = ers]_vars

\* The erase has ended in a conflict; the buffer holds the row appended after
\* the eraser's read and the summary of the identity is still stored.
C37_Witness ==
    /\ ers.pc = "failed"
    /\ ers.status = PreconditionFailed
    /\ \E r \in accepted :
           /\ r \notin SeedRecords
           /\ ContainsRow(buffer.body, recordToCsvRow(r))
           /\ ~ContainsRow(ers.csv, recordToCsvRow(r))
    /\ summaries[ers.userId].exists

\* ------------------------------------------------ errors that are not conflicts

\* Concurrent appends and summary updates whose downloads and puts the
\* storage can reject.
FaultCalls == 3

FaultNext ==
    \E p \in Procs :
        \/ /\ calls < FaultCalls
           /\ \/ AppendCall(p, NewRecords(nextId, <<"u1">>, <<SubmissionOn(1)>>))
              \/ UpdateCall(p, <<"u1">>, NewRecords(0, <<"u1">>, <<SubmissionOn(1)>>))
        \/ AppendRead(p)
        \/ AppendWrite(p)
        \/ UpdateRead(p)
        \/ UpdateWrite(p)
        \/ \E status \in ErrorStatuses : CallError(p, status)

SpecFault == IngestInitAll /\ [][FaultNext]_vars

\* The object the call reads and writes.
Target(p) == IF procs[p].op = "append" THEN buffer ELSE summaries[procs[p].userId]

\* C38: a storage error with a status other than 412 inside appendToCsvBuffer
\* or updateUserSummary goes to the caller at once: the call ends thrown with
\* the status of the error, with no further attempt and no write; a call
\* goes back to its download only after a put that met a changed etag.
C38_ErrorPropagates ==
    [][\A p \in Procs :
          /\ \A status \in ErrorStatuses :
                 CallError(p, status) =>
                     /\ procs'[p].pc = "thrown"
                     /\ procs'[p].status = status
                     /\ procs'[p].attempt = procs[p].attempt
                     /\ storeVars' = storeVars
          /\ (procs[p].pc = "write" /\ procs'[p].pc = "read") =>
                 /\ procs[p].etag # NoEtag
                 /\ ~EtagMatches(Target(p), procs[p].etag)
                 /\ procs[p].attempt < MAX_RETRIES - 1
          /\ (procs[p].pc = "thrown" /\ procs[p].status \in ErrorStatuses
                  /\ procs'[p].pc = "thrown") => procs'[p] = procs[p]]_vars

\* A call that had retried after a conflict has met an error of the storage
\* at its second put and is thrown with the status of the error.
C38_Witness ==
    \E p \in Procs :
        /\ procs[p].pc = "thrown"
        /\ procs[p].status \in ErrorStatuses
        /\ procs[p].attempt = 1

\* ------------------------------------------ the counters of a ChartDocument

\* The submissions rebuilt: two models, one of them named like the prototype
\* accessor of an object, two prompts, two outputs, two days.
TotalSubs ==
    [model_id : {<<"m1">>, ProtoKey}, prompt_id : {<<"p1">>, <<"p2">>},
     output : {<<"A">>, <<"B">>}, date : 1..2]

\* A log of up to MaxRecords records, compacted into an archive partition or
\* still in the buffer.
TotalsInit ==
    /\ codec = CodecIdle
    /\ DeltaInit
    /\ req = RequestIdle
    /\ calc = CalcIdle
    /\ \E n \in 0..MaxRecords :
         \E subs \in [1..n -> TotalSubs], k \in {0, n} :
           LET records == NewRecords(0, <<"u1">>, subs)
               archived == SubSeq(records, 1, k)
               buffered == SubSeq(records, k + 1, n)
           IN /\ archives = [d \in 1..Len(Dates) |->
                     IF d = Len(Dates) /\ archived # <<>>
                     THEN StoredCsv(archived) ELSE NoObject]
              /\ buffer = StoredCsv(buffered)
              /\ summaries = [u \in Users |-> SummaryOf(u, records)]
              /\ accepted = RecordsOf(records)
              /\ nextId = n
    /\ chart = NoObject
    /\ procs = [p \in Procs |-> ProcIdle]
    /\ calls = 0
    /\ counted = [u \in Users |-> 0]
    /\ today = Len(Dates)
    /\ MaintInit

SpecTotals == TotalsInit /\ [][RebuildNext]_vars

\* The (date, model) entries of the data of a document.
Entries(doc) ==
    UNION {{<<date, model>> : model \in DOMAIN doc.data[date]} : date \in DOMAIN doc.data}

\* The sum of submissions over a set of entries of the document.
RECURSIVE SumSubmissions(_, _)
SumSubmissions(doc, entries) ==
    IF entries = {} THEN 0
    ELSE LET e == CHOOSE x \in entries : TRUE
         IN doc.data[e[1]][e[2]].submissions + SumSubmissions(doc, entries \ {e})

\* C39: in the ChartDocument rebuildChartJson writes, every (date, model)
\* entry has drifted_prompts <= prompts_tested <= submissions and
\* unique_outputs <= submissions, and total_submissions is the sum of
\* submissions over the entries.
C39_ChartCounters ==
    (rebuilds["admin"].pc = "done" /\ chart.exists) =>
        LET doc == chart.body IN
        /\ \A e \in Entries(doc) :
               LET stats == doc.data[e[1]][e[2]] IN
               /\ stats.drifted_prompts <= stats.prompts_tested
               /\ stats.prompts_tested <= stats.submissions
               /\ stats.unique_outputs <= stats.submissions
        /\ doc.total_submissions = SumSubmissions(doc, Entries(doc))

====
